---- MODULE Spec2Model ----
(***************************************************************************)
(* A model of the abs-kosync-bridge position reconciliation engine:        *)
(*   - SyncManager.sync_cycle (main.py) over one active mapping and its    *)
(*     three position stores (Audiobookshelf, KoSync, Storyteller);        *)
(*   - the mapping lifecycle (cleanup_stale_jobs / check_pending_jobs);    *)
(*   - StorytellerDB.update_progress, the timestamp-leapfrog writer.       *)
(*                                                                         *)
(* Fractions of a book (Python floats in [0,1]) are fixed-point integers   *)
(* in units of 1/One; audio positions are whole seconds; wall-clock and    *)
(* row timestamps are milliseconds.                                        *)
(***************************************************************************)
EXTENDS Integers, Sequences, FiniteSets, TLC

VARIABLES
    \* ---- the three position stores and the transcript file (sync_cycle)
    absPos,       \* Audiobookshelf: currentTime of the item, seconds
    koPos,        \* KoSync server: percentage of the document
    stPos,        \* Storyteller: totalProgression of the latest position row, or None
    transcript,   \* content of the mapping's transcript file
    state,        \* SyncManager.state[abs_id]: the drift baseline (has = FALSE: no entry)
    cyc,          \* what the last sync_cycle did for the mapping
    prevCyc,      \* what the sync_cycle before it did
    ncycles,      \* number of sync cycles run so far
    nmoves,       \* number of position changes made by the reader so far
    nfaults,      \* number of failed reads and writes so far
    creep,        \* whether every cycle so far was a sub-threshold one
    \* ---- the mapping database and the job pipeline (check_pending_jobs)
    status,       \* mapping -> 'status' in mapping_db.json
    tref,         \* mapping -> whether 'transcript_file' is recorded
    hcid,         \* mapping -> whether 'hardcover_book_id' is recorded
    proc,         \* the process: "down", "idle", or where check_pending_jobs is
    job,          \* the mapping check_pending_jobs is working on (0: none)
    synced,       \* the mappings the last sync_cycle pass reconciled
    passres,      \* mapping -> how the last sync_cycle pass went for it
    lastjob,      \* the last one-time setup: its mapping and its outcome
    ncrash,       \* number of process crashes so far
    \* ---- the Storyteller database (StorytellerDB)
    book,         \* whether a book row matches the ebook's title
    rows,         \* position row uuid -> [present, ts, loc] of the book
    now,          \* the wall clock, ms
    upd,          \* what the last update_progress or force_position_update call did
    nupd,         \* number of such calls so far
    app,          \* the Storyteller application's own writes: how many, and
                  \* whether one came after the engine's last call
    \* ---- one call of a pure function of the normalizer or the aligner
    fin,          \* the function called and its arguments
    fout,         \* what the call returned
    \* ---- the daemon loop (run_daemon)
    spc,          \* where the thread is in run_daemon
    queue,        \* the due jobs run_pending has still to run
    running,      \* job -> number of its executions in progress
    nextrun,      \* job -> next_run of the schedule library
    clock,        \* time in steps of 30 s
    since,        \* job -> when its last execution began
    viaSched,     \* job -> whether that execution was started by run_pending
    mapidx,       \* mappings the running sync_cycle is done with
    inproc,       \* mappings the running sync_cycle is working on
    \* ---- the Storyteller client (StorytellerDBWithAPI)
    built,        \* whether the constructor has run
    api_client,   \* whether self.api_client is set
    db_fallback,  \* whether self.db_fallback is set
    chosen,       \* the backend the constructor chose
    tok,          \* _token (has) and _token_timestamp (ts)
    cache,        \* _book_cache (books) and _cache_timestamp (ts)
    tnow,         \* time.time(), seconds
    stcall,       \* what the last call of the client did
    ncalls,       \* number of calls of the client so far
    \* ---- the Storyteller reads of one sync_cycle over the database
    lead,         \* where the cycle is, what it read and the text it took
    \* ---- one-time transcription (AudioTranscriber.process_audio)
    outfile,      \* transcripts/<abs_id>.json: "absent" or what it holds
    cachedir,     \* audio_cache/<abs_id>: whether it exists
    pa,           \* the call of process_audio: where it is and what it did
    \* ---- discovery (SuggestionManager)
    suggestions,  \* self.suggestions: key -> suggestion (state "none": no entry)
    abcache,      \* _audiobook_cache (books) and _cache_timestamp (ts)
    dclock,       \* time.time(), days
    disc          \* what the last run_discovery_cycle did

syncVars == <<absPos, koPos, stPos, transcript, state, cyc, prevCyc, ncycles,
              nmoves, nfaults, creep>>

jobVars == <<status, tref, hcid, proc, job, synced, passres, lastjob, ncrash>>

dbVars == <<book, rows, now, upd, nupd, app>>

fnVars == <<fin, fout>>

schedVars == <<spc, queue, running, nextrun, clock, since, viaSched, mapidx, inproc>>

apiVars == <<built, api_client, db_fallback, chosen, tok, cache, tnow, stcall, ncalls>>

leadVars == <<lead>>

audioVars == <<outfile, cachedir, pa>>

discVars == <<suggestions, abcache, dclock, disc>>

auxVars == <<fnVars, schedVars, apiVars, leadVars, audioVars, discVars>>

vars == <<syncVars, jobVars, dbVars, auxVars>>

\* Python None, a value outside every position domain
None == 0 - 1

\* ------------------------------------------------------------------ units
\* 1.0 as a fixed-point fraction (every duration used divides it exactly)
One == 36000

\* SYNC_DELTA_ABS_SECONDS default, seconds
delta_abs_thresh == 60

\* SYNC_DELTA_KOSYNC_PERCENT default 1, divided by 100
delta_kosync_thresh == One \div 100

\* ----------------------------------------------------------------- bounds
\* sync cycles run
MaxCycles == 2

\* position changes made by the reader
MaxMoves == 1

\* failed reads and writes of the stores
MaxFaults == 1

\* mappings in mapping_db.json
NumMappings == 2

\* process crashes
MaxCrashes == 1

\* update_progress and force_position_update calls
MaxUpdates == 2

\* position writes of the Storyteller application
MaxAppWrites == 1

\* steps of the wall clock, and the length of one step in ms
MaxTicks == 2

TickMs == 6000

\* ---------------------------------------------------------------- domains
\* audio positions the reader can move to (seconds)
AbsTimes == {60, 1800}

\* text positions the reader can move to (fractions): 1.67%, 50%
Pcts == {600, 18000}

\* positions of the stores when the process starts
InitAbsTimes == {0, 1800}

InitPcts == {0, 18000}

InitKoPcts == {0, 300}

\* transcript files: absent or unreadable, an empty segment list, a
\* {duration: ...} document, a list of {start, end, text} segments
Seg(s, e) == [start |-> s, end |-> e]

MissingT == [kind |-> "missing", segs |-> <<>>, duration |-> 0]

EmptyListT == [kind |-> "list", segs |-> <<>>, duration |-> 0]

DictT == [kind |-> "dict", segs |-> <<>>, duration |-> 3600]

ListT == [kind |-> "list", segs |-> <<Seg(0, 1800), Seg(1800, 3600)>>, duration |-> 0]

TranscriptFiles == {MissingT, EmptyListT, DictT, ListT}

\* ------------------------------------------------------- Python helpers
\* Python truthiness of a float-or-None
Truthy(x) == x # None /\ x # 0

\* `x or 0.0`
OrZero(x) == IF Truthy(x) THEN x ELSE 0

Abs(x) == IF x < 0 THEN -x ELSE x

Min(a, b) == IF a < b THEN a ELSE b

Max(a, b) == IF a > b THEN a ELSE b

\* ------------------------------------------------------ source readers
\* ABSClient.get_progress: currentTime on HTTP 200, 0.0 on any failure
ABSGetProgress(ok) == IF ok THEN absPos ELSE 0

\* KoSyncClient.get_progress: percentage on HTTP 200, 0.0 on any failure
KoSyncGetProgress(ok) == IF ok THEN koPos ELSE 0

\* StorytellerDB.get_progress: totalProgression of the latest row, or None
\* (no connection, no book, no row, error)
StorytellerGetProgress(ok) == IF ok THEN stPos ELSE None

\* ---------------------------------------------------------- normalizer
\* SyncManager._get_transcript_duration
GetTranscriptDuration(t) ==
    IF t.kind = "missing" THEN 0
    ELSE IF t.kind = "list" /\ Len(t.segs) > 0 THEN t.segs[Len(t.segs)].end
    ELSE IF t.kind = "dict" THEN t.duration
    ELSE 0

AbsToPercentageZero(abs_seconds, t) ==
    LET duration == GetTranscriptDuration(t)
    IN  IF duration > 0
        THEN Min(Max((abs_seconds * One) \div duration, 0), One)
        ELSE 0

\* a division that is not clamped
AbsToPercentageUnclamped(abs_seconds, t) ==
    LET duration == GetTranscriptDuration(t)
    IN  IF duration > 0
        THEN (abs_seconds * One) \div duration
        ELSE None

\* SyncManager._abs_to_percentage
AbsToPercentage(abs_seconds, t) ==
    LET duration == GetTranscriptDuration(t)
    IN  IF duration > 0
        THEN Min(Max((abs_seconds * One) \div duration, 0), One)
        ELSE None

\* ------------------------------------------------------------ aligner
\* a search that answers from a transcript it could not read
FindTimeResultsStale(t) == {None, 1800}

\* AudioTranscriber.find_time_for_text: the outcomes the transcript file
\* allows: not found (None), or the start of one of its segments
FindTimeResults(t) ==
    IF t.kind = "list"
    THEN {None} \cup {t.segs[i].start : i \in 1..Len(t.segs)}
    ELSE {None}

\* AudioTranscriber.get_text_at_time: TRUE = a non-empty text, FALSE = None
\* or an empty string
TextAtTimeResults(t) ==
    IF t.kind = "list" /\ Len(t.segs) > 0 THEN {TRUE, FALSE} ELSE {FALSE}

\* EbookParser.find_text_location: the percentage the text index may return
\* for a text window (None or 0.0 = no usable match)
MatchResults == {None, 0, 18000}

\* ------------------------------------------------------- drift detector
\* prev.get(key, 0) on the stored baseline (prev = {} when there is none)
NoState ==
    [has |-> FALSE, abs_ts |-> 0, abs_pct |-> 0, kosync_pct |-> 0,
     storyteller_pct |-> 0]

PrevGet(key) == IF ~state.has THEN 0 ELSE state[key]

\* a drift test that also fires at exactly the threshold
ChangedOrEqual(cur, key, thresh) == Abs(cur - PrevGet(key)) >= thresh

\* abs(cur - prev.get(key, 0)) > threshold
Changed(cur, key, thresh) == Abs(cur - PrevGet(key)) > thresh

\* any([abs_changed, ko_changed, st_changed])
DriftDetected(rd) ==
    \/ Changed(rd.abs_ts, "abs_ts", delta_abs_thresh)
    \/ Changed(rd.ko_pct, "kosync_pct", delta_kosync_thresh)
    \/ Changed(rd.st_pct, "storyteller_pct", delta_kosync_thresh)

\* ------------------------------------------------------ leader selector
\* progress_map in insertion order: KOSYNC, STORYTELLER, then ABS when
\* abs_pct is not None
ProgressMap(rd) ==
    <<[src |-> "KOSYNC", pct |-> rd.ko_pct],
      [src |-> "STORYTELLER", pct |-> rd.st_pct]>>
    \o (IF rd.abs_pct # None THEN <<[src |-> "ABS", pct |-> rd.abs_pct]>> ELSE <<>>)

\* Python max(iterable, key=...): scan in order, replace the best only by a
\* strictly greater one
RECURSIVE MaxScan(_, _, _)
MaxScan(pm, i, best) ==
    IF i > Len(pm) THEN best
    ELSE MaxScan(pm, i + 1, IF pm[i].pct > pm[best].pct THEN i ELSE best)

RECURSIVE MaxScanLast(_, _, _)
MaxScanLast(pm, i, best) ==
    IF i > Len(pm) THEN best
    ELSE MaxScanLast(pm, i + 1, IF pm[i].pct >= pm[best].pct THEN i ELSE best)

LeaderLast(rd) == LET pm == ProgressMap(rd) IN pm[MaxScanLast(pm, 2, 1)]

\* leader = max(progress_map, key=progress_map.get)
Leader(rd) == LET pm == ProgressMap(rd) IN pm[MaxScan(pm, 2, 1)]

\* ----------------------------------------------------------- propagator
W(dest, val) == [dest |-> dest, val |-> val]

\* look: what the lookup of the text answered (find_text_location for an
\* audio leader, find_time_for_text for a text leader), None when it gave no
\* answer or was not reached
Outcome(writes, final_ts, final_pct, success, notfound, look) ==
    [writes |-> writes, final_ts |-> final_ts, final_pct |-> final_pct,
     success |-> success, notfound |-> notfound, look |-> look]

\* an audio-led propagation that updates KoSync only
PropagateABSKoOnly(rd, t) ==
    { LET ok == txt /\ Truthy(m)
      IN  Outcome(IF ok THEN {W("KOSYNC", m)} ELSE {},
                  rd.abs_ts, IF ok THEN m ELSE rd.abs_pct, ok, FALSE,
                  IF txt THEN m ELSE None)
      : txt \in TextAtTimeResults(t), m \in MatchResults }

\* leader == 'ABS': text at the audio time, then its place in the ebook
PropagateABS(rd, t) ==
    { LET ok == txt /\ Truthy(m)
      IN  Outcome(IF ok THEN {W("KOSYNC", m), W("STORYTELLER", m)} ELSE {},
                  rd.abs_ts, IF ok THEN m ELSE rd.abs_pct, ok, FALSE,
                  IF txt THEN m ELSE None)
      : txt \in TextAtTimeResults(t), m \in MatchResults }

\* a KoSync-led propagation that sends the percentage back to KoSync too
PropagateKOSYNCEcho(rd, t) ==
    { LET ok == txt /\ Truthy(ts)
      IN  Outcome(IF ok THEN {W("ABS", ts), W("STORYTELLER", rd.ko_pct),
                              W("KOSYNC", rd.ko_pct)} ELSE {},
                  IF ok THEN ts ELSE rd.abs_ts, rd.ko_pct, ok, txt /\ ts = None,
                  IF txt THEN ts ELSE None)
      : txt \in BOOLEAN, ts \in FindTimeResults(t) }

\* leader == 'KOSYNC': text at the percentage, then its time in the transcript
PropagateKOSYNC(rd, t) ==
    { LET ok == txt /\ Truthy(ts)
      IN  Outcome(IF ok THEN {W("ABS", ts), W("STORYTELLER", rd.ko_pct)} ELSE {},
                  IF ok THEN ts ELSE rd.abs_ts, rd.ko_pct, ok, txt /\ ts = None,
                  IF txt THEN ts ELSE None)
      : txt \in BOOLEAN, ts \in FindTimeResults(t) }

\* leader == 'STORYTELLER': text of the fragment or at the percentage, its
\* time in the transcript, then its locator in the ebook (which may raise
\* after the audio write was issued)
PropagateSTORYTELLER(rd, t) ==
    { LET ok == txt /\ Truthy(ts)
      IN  Outcome(IF ~ok THEN {}
                  ELSE IF locRaises THEN {W("ABS", ts)}
                  ELSE {W("ABS", ts), W("KOSYNC", rd.st_pct)},
                  IF ok /\ ~locRaises THEN ts ELSE rd.abs_ts, rd.st_pct,
                  ok /\ ~locRaises, txt /\ ts = None,
                  IF txt THEN ts ELSE None)
      : txt \in BOOLEAN, ts \in FindTimeResults(t), locRaises \in BOOLEAN }

\* the try block of sync_cycle, by leader
Propagate(leader, rd, t) ==
    IF leader = "ABS" THEN PropagateABS(rd, t)
    ELSE IF leader = "KOSYNC" THEN PropagateKOSYNC(rd, t)
    ELSE PropagateSTORYTELLER(rd, t)

\* the value a store holds after the writes of a cycle: a write that was
\* issued to it and took effect replaces it
Written(dest, writes, old, took) ==
    IF took /\ \E w \in writes : w.dest = dest
    THEN (CHOOSE w \in writes : w.dest = dest).val
    ELSE old

\* ------------------------------------------------------------ the cycle
NoReadings == [abs_ts |-> 0, ko_pct |-> 0, st_pct |-> 0, abs_pct |-> None]

NoCycle ==
    [kind |-> "none", rd |-> NoReadings,
     avail |-> [ABS |-> FALSE, KOSYNC |-> FALSE, STORYTELLER |-> FALSE],
     cands |-> {}, leader |-> "none", writes |-> {},
     notfound |-> FALSE, success |-> FALSE, final_pct |-> 0, hc |-> {},
     look |-> None]

\* the cycle read the sources and reached the drift check
Visited(c) == c.kind \in {"noop", "prop"}

\* what is remembered of the cycle before the last one
Summary(c) == [kind |-> c.kind, rd |-> c.rd, notfound |-> c.notfound]

\* a cycle without drift that keeps the baseline it found
NoopBaselineKept(rd) ==
    IF state.has THEN state
    ELSE [has |-> TRUE, abs_ts |-> rd.abs_ts, abs_pct |-> OrZero(rd.abs_pct),
          kosync_pct |-> rd.ko_pct, storyteller_pct |-> rd.st_pct]

\* self.state[abs_id] = {...} on a cycle without drift (last_updated, which
\* no decision reads, is left out)
NoopBaseline(rd) ==
    [has |-> TRUE, abs_ts |-> rd.abs_ts, abs_pct |-> OrZero(rd.abs_pct),
     kosync_pct |-> rd.ko_pct, storyteller_pct |-> rd.st_pct]

\* a baseline that is advanced by a successful propagation only
PropBaselineIfSuccess(o, t) ==
    IF o.success
    THEN [has |-> TRUE, abs_ts |-> o.final_ts,
          abs_pct |-> OrZero(AbsToPercentage(o.final_ts, t)),
          kosync_pct |-> o.final_pct, storyteller_pct |-> o.final_pct]
    ELSE state

\* a baseline whose audio time is not advanced by a propagation
PropBaselineOldTs(o, t) ==
    [has |-> TRUE, abs_ts |-> state.abs_ts,
     abs_pct |-> OrZero(AbsToPercentage(o.final_ts, t)),
     kosync_pct |-> o.final_pct, storyteller_pct |-> o.final_pct]

\* self.state[abs_id] = {...} after the try block
PropBaseline(o, t) ==
    [has |-> TRUE, abs_ts |-> o.final_ts,
     abs_pct |-> OrZero(AbsToPercentage(o.final_ts, t)),
     kosync_pct |-> o.final_pct, storyteller_pct |-> o.final_pct]

\* the minimum progress of the external catalog update: 0.01
MinCatalogPct == One \div 100

\* a gate that lets every successful propagation through
MaterialAlways(sync_success, final_pct) == sync_success

\* sync_success and final_pct > 0.01
Material(sync_success, final_pct) == sync_success /\ final_pct > MinCatalogPct

\* _automatch_hardcover as called from the cycle: nothing found (or no
\* token, no item), a book matched and recorded, or an exception
AutomatchResults == {"no_match", "matched", "raises"}

\* the catalog calls of a cycle: _automatch_hardcover when the mapping has
\* no hardcover_book_id, then _sync_to_hardcover when it has one
CatalogCalls(material, had_id, am) ==
    (IF material /\ ~had_id THEN {"automatch"} ELSE {})
    \cup (IF material /\ am # "raises" /\ (had_id \/ am = "matched")
          THEN {"sync"} ELSE {})

\* no reading of r2 is beyond its threshold away from the one of r1
Sub(r1, r2) ==
    /\ Abs(r2.abs_ts - r1.abs_ts) <= delta_abs_thresh
    /\ Abs(r2.ko_pct - r1.ko_pct) <= delta_kosync_thresh
    /\ Abs(r2.st_pct - r1.st_pct) <= delta_kosync_thresh

\* the history of sub-threshold movement after a cycle that read rd: all =
\* every cycle so far moved within the thresholds of the cycle before it,
\* the first one of the defaults 0; later = the same for every cycle but
\* the first
Creeping(rd, read) ==
    [all |-> creep.all /\ read /\ Sub(IF ncycles = 0 THEN NoReadings ELSE cyc.rd, rd),
     later |-> creep.later /\ read /\ (ncycles = 0 \/ (Visited(cyc) /\ Sub(cyc.rd, rd)))]

NoCreep == [all |-> TRUE, later |-> TRUE]

\* number of failed calls among the given outcomes (TRUE = the call worked)
Faults(oks) == Cardinality({i \in 1..Len(oks) : ~oks[i]})

\* SyncManager.sync_cycle, for the one active mapping
SyncCycle ==
    /\ ncycles < MaxCycles
    /\ ncycles' = ncycles + 1
    /\ prevCyc' = Summary(cyc)
    /\ UNCHANGED <<transcript, nmoves>>
    /\ UNCHANGED <<status, tref, proc, job, synced, passres, lastjob, ncrash>>
    /\ UNCHANGED dbVars
    /\ UNCHANGED auxVars
    /\ \E absOk, koOk, stOk, fetchOk \in BOOLEAN :
        LET abs_ts == OrZero(ABSGetProgress(absOk))
            ko_pct == OrZero(KoSyncGetProgress(koOk))
            st_raw == StorytellerGetProgress(stOk)
            st_pct == OrZero(st_raw)
            abs_pct == AbsToPercentage(abs_ts, transcript)
            rd == [abs_ts |-> abs_ts, ko_pct |-> ko_pct, st_pct |-> st_pct,
                   abs_pct |-> abs_pct]
            avail == [ABS |-> absOk, KOSYNC |-> koOk, STORYTELLER |-> st_raw # None]
            base == [NoCycle EXCEPT !.rd = rd, !.avail = avail]
            f == Faults(<<absOk, koOk, stOk, fetchOk>>)
        IN  /\ nfaults + f <= MaxFaults
            /\ IF ~fetchOk
               THEN \* "Error fetching progress": continue
                    /\ absOk /\ koOk /\ stOk
                    /\ cyc' = [NoCycle EXCEPT !.kind = "skipped"]
                    /\ nfaults' = nfaults + f
                    /\ creep' = Creeping(NoReadings, FALSE)
                    /\ UNCHANGED <<absPos, koPos, stPos, state, hcid>>
               ELSE IF ~DriftDetected(rd)
               THEN /\ cyc' = [base EXCEPT !.kind = "noop"]
                    /\ state' = NoopBaseline(rd)
                    /\ nfaults' = nfaults + f
                    /\ creep' = Creeping(rd, TRUE)
                    /\ UNCHANGED <<absPos, koPos, stPos, hcid>>
               ELSE LET pm == ProgressMap(rd)
                        leader == Leader(rd)
                    IN  \E o \in Propagate(leader.src, rd, transcript) :
                        \E wAbs, wKo, wSt \in BOOLEAN, am \in AutomatchResults :
                        LET material == Material(o.success, o.final_pct)
                            g == Faults(<<wAbs, wKo, wSt, am # "raises">>)
                        IN
                           /\ (\A w \in o.writes : w.dest # "ABS") => wAbs
                           /\ (\A w \in o.writes : w.dest # "KOSYNC") => wKo
                           /\ (\A w \in o.writes : w.dest # "STORYTELLER") => wSt
                           /\ (~material \/ hcid[1]) => am = "no_match"
                           /\ nfaults + f + g <= MaxFaults
                           /\ nfaults' = nfaults + f + g
                           /\ hcid' = [hcid EXCEPT ![1] = @ \/ (material /\ am = "matched")]
                           /\ creep' = Creeping(rd, TRUE)
                           /\ cyc' = [base EXCEPT !.kind = "prop",
                                        !.cands = {pm[i].src : i \in 1..Len(pm)},
                                        !.leader = leader.src,
                                        !.writes = o.writes,
                                        !.notfound = o.notfound,
                                        !.success = o.success,
                                        !.final_pct = o.final_pct,
                                        !.look = o.look,
                                        !.hc = CatalogCalls(material, hcid[1], am)]
                           /\ absPos' = Written("ABS", o.writes, absPos, wAbs)
                           /\ koPos' = Written("KOSYNC", o.writes, koPos, wKo)
                           /\ stPos' = Written("STORYTELLER", o.writes, stPos,
                                               wSt /\ stPos # None)
                           /\ state' = PropBaseline(o, transcript)

\* the reader moves on in one of the three applications
ReaderMoves ==
    /\ nmoves < MaxMoves
    /\ nmoves' = nmoves + 1
    /\ \/ \E v \in AbsTimes : absPos' = v /\ UNCHANGED <<koPos, stPos>>
       \/ \E v \in Pcts : koPos' = v /\ UNCHANGED <<absPos, stPos>>
       \/ \E v \in Pcts : stPos' = v /\ UNCHANGED <<absPos, koPos>>
    /\ UNCHANGED <<transcript, state, cyc, prevCyc, ncycles, nfaults, creep>>
    /\ UNCHANGED <<jobVars, dbVars>>
    /\ UNCHANGED auxVars

\* the sync stores before any cycle
InitSync ==
    /\ absPos \in InitAbsTimes
    /\ koPos \in InitKoPcts
    /\ stPos \in InitPcts \cup {None}
    /\ transcript \in TranscriptFiles
    /\ state = NoState
    /\ cyc = NoCycle
    /\ prevCyc = Summary(NoCycle)
    /\ ncycles = 0
    /\ nmoves = 0
    /\ nfaults = 0
    /\ creep = NoCreep

\* ------------------------------------------------------ mapping lifecycle
Mappings == 1..NumMappings

Statuses == {"pending", "processing", "active", "failed_retry_later", "crashed"}

NoPass == [m \in Mappings |-> "none"]

NoJob == [m |-> 0, outcome |-> "none"]

\* a running manager with one active mapping and no job in flight
JobsQuiet ==
    /\ status = [m \in Mappings |-> "active"]
    /\ tref = [m \in Mappings |-> TRUE]
    /\ hcid = [m \in Mappings |-> FALSE]
    /\ proc = "idle"
    /\ job = 0
    /\ synced = {}
    /\ passres = NoPass
    /\ lastjob = NoJob
    /\ ncrash = 0

\* mapping_db.json as the process finds it when it starts
InitJobs ==
    /\ status \in [Mappings -> Statuses]
    /\ tref = [m \in Mappings |-> status[m] = "active"]
    /\ hcid = [m \in Mappings |-> FALSE]
    /\ proc = "down"
    /\ job = 0
    /\ synced = {}
    /\ passres = NoPass
    /\ lastjob = NoJob
    /\ ncrash = 0

\* SyncManager.cleanup_stale_jobs: the statuses after the loop
Recovered == [m \in Mappings |-> IF status[m] = "crashed" THEN "active" ELSE status[m]]

\* SyncManager.__init__: load the database, cleanup_stale_jobs
Startup ==
    /\ proc = "down"
    /\ status' = Recovered
    /\ proc' = "idle"
    /\ job' = 0
    /\ UNCHANGED <<tref, hcid, synced, passres, lastjob, ncrash>>
    /\ UNCHANGED <<syncVars, dbVars>>
    /\ UNCHANGED auxVars

\* a job pass that also takes up the mappings whose setup failed
PendingOrFailed(s) == s \in {"pending", "failed_retry_later"}

\* mapping.get('status') == 'pending'
Pending(s) == s = "pending"

\* check_pending_jobs reaches the next pending mapping of its loop: mark it
\* 'processing' and save
JobStart(m) ==
    /\ proc = "idle"
    /\ Pending(status[m])
    /\ \A k \in Mappings : k < m => ~Pending(status[k])
    /\ status' = [status EXCEPT ![m] = "processing"]
    /\ proc' = "setup"
    /\ job' = m
    /\ UNCHANGED <<tref, hcid, synced, passres, lastjob, ncrash>>
    /\ UNCHANGED <<syncVars, dbVars>>
    /\ UNCHANGED auxVars

\* how the try block can go up to the update of the mapping
SetupOutcomes == {"ok", "no_audio_files", "transcription_fails", "indexing_fails"}

\* a setup that activates the mapping although the transcription failed
SetupUpdateLenient(outcome, old_tref) ==
    IF outcome \in {"ok", "transcription_fails"}
    THEN [status |-> "active", tref |-> (outcome = "ok") \/ old_tref]
    ELSE [status |-> "failed_retry_later", tref |-> old_tref]

\* mapping.update({'transcript_file': ..., 'status': 'active'}) when nothing
\* raised; mapping['status'] = 'failed_retry_later' in the except clause
SetupUpdate(outcome, old_tref) ==
    IF outcome = "ok"
    THEN [status |-> "active", tref |-> TRUE]
    ELSE [status |-> "failed_retry_later", tref |-> old_tref]

\* the one-time setup in the try block: audio files, transcription, text
\* indexing; then record the transcript and 'active', and save
JobSetup ==
    /\ proc = "setup"
    /\ \E outcome \in SetupOutcomes :
        LET u == SetupUpdate(outcome, tref[job])
        IN  /\ status' = [status EXCEPT ![job] = u.status]
            /\ tref' = [tref EXCEPT ![job] = u.tref]
            /\ lastjob' = [m |-> job, outcome |-> outcome]
            /\ IF outcome = "ok"
               THEN proc' = "automatch" /\ UNCHANGED job
               ELSE proc' = "idle" /\ job' = 0
    /\ UNCHANGED <<hcid, synced, passres, ncrash>>
    /\ UNCHANGED <<syncVars, dbVars>>
    /\ UNCHANGED auxVars

\* _automatch_hardcover, still inside the try block: an exception raised
\* here is handled by the same except clause as a setup failure
JobAutomatch ==
    /\ proc = "automatch"
    /\ \E outcome \in {"no_match", "matched", "raises"} :
        /\ hcid' = [hcid EXCEPT ![job] = (outcome = "matched") \/ @]
        /\ status' = IF outcome = "raises"
                     THEN [status EXCEPT ![job] = "failed_retry_later"]
                     ELSE status
    /\ proc' = "idle"
    /\ job' = 0
    /\ UNCHANGED <<tref, synced, passres, lastjob, ncrash>>
    /\ UNCHANGED <<syncVars, dbVars>>
    /\ UNCHANGED auxVars

\* JsonDB.save of the sync state failing on the disk: logged and skipped
StateSaveFailures == {"save_fails"}

\* how the body of the loop of sync_cycle can go for an active mapping: to
\* its end, an exception while reading the positions (except, continue), an
\* exception in the propagation (except, then the state is written), a
\* failure to save the state
MappingResults == {"ok", "read_raises", "propagation_raises"} \cup StateSaveFailures

\* a loop that an exception of one mapping ends
ReachedUntilError(res) ==
    {m \in Mappings : status[m] = "active"
                      /\ \A k \in Mappings : (k < m /\ status[k] = "active") => res[k] = "ok"}

\* a loop without the status test
ReachedAll(res) == Mappings

\* the mappings whose loop body is entered: every active one, since what a
\* body raises is caught inside it
Reached(res) == {m \in Mappings : status[m] = "active"}

\* sync_cycle over the database: only 'active' mappings are reconciled, and
\* the status of none is touched
SyncPass ==
    /\ proc = "idle"
    /\ \E res \in [Mappings -> MappingResults] :
        /\ synced' = Reached(res)
        /\ passres' = [m \in Mappings |-> IF m \in Reached(res) THEN res[m] ELSE "none"]
    /\ UNCHANGED <<status, tref, hcid, proc, job, lastjob, ncrash>>
    /\ UNCHANGED <<syncVars, dbVars>>
    /\ UNCHANGED auxVars

\* the process dies (and is started again by Startup); the file stays
Crash ==
    /\ proc # "down"
    /\ ncrash < MaxCrashes
    /\ ncrash' = ncrash + 1
    /\ proc' = "down"
    /\ job' = 0
    /\ synced' = {}
    /\ passres' = NoPass
    /\ UNCHANGED <<status, tref, hcid, lastjob>>
    /\ UNCHANGED <<syncVars, dbVars>>
    /\ UNCHANGED auxVars

\* ------------------------------------------------- Storyteller database
\* the leap of update_progress, ms
LeapMs == 10000

\* the leap of force_position_update, ms
ForceLeapMs == 60000

\* "hasn't changed meaningfully": 0.001
EpsPct == One \div 1000

RowIds == {1, 2}

\* the wall clock when the model starts
StartMs == 2 * LeapMs

\* Readium locators as stored in position.locator. json: "null" (NULL or
\* empty string), "corrupt" (not JSON) or "ok"; type: "" when the key is
\* absent; tp: totalProgression, None when the key is absent; keys: the
\* other keys under locations; href: "" when the key is absent
Loc(json, type, hasLocations, tp, keys, href) ==
    [json |-> json, type |-> type, hasLocations |-> hasLocations, tp |-> tp,
     keys |-> keys, href |-> href]

EmptyLoc == Loc("ok", "", FALSE, None, {}, "")

NullLoc == [EmptyLoc EXCEPT !.json = "null"]

CorruptLoc == [EmptyLoc EXCEPT !.json = "corrupt"]

BareLoc == Loc("ok", "", FALSE, None, {}, "ch1.xhtml")

\* a position as the Storyteller application stores it
AppLoc ==
    Loc("ok", "application/xhtml+xml", TRUE, 18000,
        {"cssSelector", "fragments", "progression", "otherLocations"},
        "ch1.xhtml#p12")

InitLocs == {NullLoc, CorruptLoc, BareLoc, AppLoc}

\* timestamps a row can carry at the start: before the clock, at the clock,
\* and ahead of it (left by earlier leaps)
InitRowTs == {StartMs - LeapMs, StartMs, StartMs + LeapMs + TickMs}

NoRow == [present |-> FALSE, ts |-> 0, loc |-> NullLoc]

\* percentages the engine propagates to Storyteller: 0, 50%, 50.05%, 50.11%
DbPcts == {0, 18000, 18018, 18040}

\* percentages a position is forced to: 0, 50%
ForcePcts == {0, 18000}

\* the percentage the reader is at in the Storyteller application: 25%
AppPct == One \div 4

\* the position the application syncs: the element the reader is at and its
\* percentage
AppNowLoc == [AppLoc EXCEPT !.tp = AppPct, !.href = "ch1.xhtml#p6"]

\* SELECT ... FROM position WHERE book_uuid = ? ORDER BY timestamp DESC
\* LIMIT 1 with a row created when the book has none
LatestRowsOrNew ==
    IF \A u \in RowIds : ~rows[u].present
    THEN RowIds
    ELSE {u \in RowIds : rows[u].present /\ \A v \in RowIds : rows[v].present => rows[v].ts <= rows[u].ts}

\* SELECT ... FROM position WHERE book_uuid = ? ORDER BY timestamp DESC
\* LIMIT 1: the rows that can come first (equal timestamps: either)
LatestRows == {u \in RowIds : rows[u].present /\ \A v \in RowIds : rows[v].present => rows[v].ts <= rows[u].ts}

\* locator = json.loads(pos_row['locator']) when set and valid, else {}
Parsed(loc) == IF loc.json = "ok" THEN loc ELSE EmptyLoc

\* locator.get('locations', {}).get('totalProgression', 0)
OldPct(loc) == IF Parsed(loc).tp = None THEN 0 ELSE Parsed(loc).tp

\* a timestamp leaping two leaps ahead
NewTsTwoLeaps(now_ms, current_ts) == Max(now_ms, current_ts) + 2 * LeapMs

\* a timestamp leaping ahead of the wall clock only
NewTsFromClock(now_ms, current_ts) == now_ms + LeapMs

\* a timestamp leaping ahead of the stored timestamp only
NewTsFromRow(now_ms, current_ts) == current_ts + LeapMs

\* new_ts = max(now_ms, current_ts) + 10000
NewTs(now_ms, current_ts) == Max(now_ms, current_ts) + LeapMs

\* a skip test that fires only on the very same percentage
SamePct(percentage, old_pct) == percentage = old_pct

\* abs(float(percentage) - old_pct) < 0.001
Unchanged(percentage, old_pct) == Abs(percentage - old_pct) < EpsPct

\* the keys update_progress deletes under locations
StrippedKeys == {"cssSelector", "fragments", "position", "progression"}

\* the locator update_progress writes back: totalProgression set, the four
\* keys deleted under locations, everything else as parsed
Mutated(loc, percentage) ==
    [Parsed(loc) EXCEPT !.hasLocations = TRUE, !.tp = percentage,
                        !.keys = @ \ StrippedKeys]

\* the locator force_position_update writes: type (or its default),
\* locations.totalProgression, and href (the target, else the old one)
Rebuilt(loc, percentage, target_href) ==
    Loc("ok",
        IF Parsed(loc).type = "" THEN "application/xhtml+xml" ELSE Parsed(loc).type,
        TRUE, percentage, {},
        IF target_href # "" THEN target_href ELSE Parsed(loc).href)

\* get_progress_with_fragment: frag_id = href.split('#')[1] when href has a
\* '#', else None ("" here)
FragmentId(href) ==
    IF href = "ch1.xhtml#p12" THEN "p12"
    ELSE IF href = "ch1.xhtml#p6" THEN "p6"
    ELSE ""

\* StorytellerDB.get_progress: totalProgression of the row that comes first
\* by timestamp; None without book, row or locator, and on a JSON error
LatestProgress ==
    IF ~book \/ LatestRows = {} THEN {None}
    ELSE { IF rows[u].loc.json # "ok" THEN None ELSE OldPct(rows[u].loc) : u \in LatestRows }

NoUpdate ==
    [called |-> FALSE, op |-> "none", io |-> TRUE, nobase |-> FALSE,
     ret |-> FALSE, wrote |-> FALSE, uuid |-> 0, pct |-> 0,
     now_ms |-> 0, current_ts |-> 0, new_ts |-> 0]

NoApp == [n |-> 0, after |-> FALSE]

\* StorytellerDB.update_progress(ebook_filename, percentage)
UpdateProgress ==
    /\ nupd < MaxUpdates
    /\ nupd' = nupd + 1
    /\ app' = [app EXCEPT !.after = FALSE]
    /\ \E percentage \in DbPcts, ioOk \in BOOLEAN :
        LET call == [NoUpdate EXCEPT !.called = TRUE, !.op = "update", !.io = ioOk,
                                     !.pct = percentage, !.now_ms = now]
        IN  IF ~ioOk
            THEN \* sqlite error: False
                 /\ upd' = call
                 /\ UNCHANGED rows
            ELSE IF ~book \/ LatestRows = {}
            THEN \* no book row, or no position row: False
                 /\ upd' = [call EXCEPT !.nobase = TRUE]
                 /\ UNCHANGED rows
            ELSE \E u \in LatestRows :
                 LET current_ts == rows[u].ts
                     new_ts == NewTs(now, current_ts)
                     seen == [call EXCEPT !.uuid = u, !.current_ts = current_ts,
                                          !.new_ts = new_ts, !.ret = TRUE]
                 IN  IF Unchanged(percentage, OldPct(rows[u].loc))
                     THEN \* unchanged within epsilon: True, nothing written
                          /\ upd' = seen
                          /\ UNCHANGED rows
                     ELSE /\ upd' = [seen EXCEPT !.wrote = TRUE]
                          /\ rows' = [rows EXCEPT ![u] =
                                [present |-> TRUE, ts |-> new_ts,
                                 loc |-> Mutated(rows[u].loc, percentage)]]
    /\ UNCHANGED <<book, now>>
    /\ UNCHANGED <<syncVars, jobVars>>
    /\ UNCHANGED auxVars

\* StorytellerDB.force_position_update(ebook_filename, percentage, target_href)
ForcePositionUpdate ==
    /\ nupd < MaxUpdates
    /\ nupd' = nupd + 1
    /\ app' = [app EXCEPT !.after = FALSE]
    /\ \E percentage \in ForcePcts, target_href \in {"", "ch2.xhtml"}, ioOk \in BOOLEAN :
        LET call == [NoUpdate EXCEPT !.called = TRUE, !.op = "force", !.io = ioOk,
                                     !.pct = percentage, !.now_ms = now]
        IN  IF ~ioOk
            THEN /\ upd' = call
                 /\ UNCHANGED rows
            ELSE IF ~book \/ LatestRows = {}
            THEN /\ upd' = [call EXCEPT !.nobase = TRUE]
                 /\ UNCHANGED rows
            ELSE \E u \in LatestRows :
                 /\ upd' = [call EXCEPT !.uuid = u, !.current_ts = rows[u].ts,
                                        !.new_ts = now + ForceLeapMs,
                                        !.ret = TRUE, !.wrote = TRUE]
                 /\ rows' = [rows EXCEPT ![u] =
                        [present |-> TRUE, ts |-> now + ForceLeapMs,
                         loc |-> Rebuilt(rows[u].loc, percentage, target_href)]]
    /\ UNCHANGED <<book, now>>
    /\ UNCHANGED <<syncVars, jobVars>>
    /\ UNCHANGED auxVars

\* the Storyteller application syncs the position it has cached, stamped
\* with its clock: timestamp-based conflict resolution keeps the newer one
AppSync ==
    /\ app.n < MaxAppWrites
    /\ app' = [n |-> app.n + 1, after |-> TRUE]
    /\ \E u \in RowIds :
        IF ~rows[u].present \/ now > rows[u].ts
        THEN rows' = [rows EXCEPT ![u] =
                [present |-> TRUE, ts |-> now, loc |-> AppNowLoc]]
        ELSE UNCHANGED rows
    /\ UNCHANGED <<book, now, upd, nupd>>
    /\ UNCHANGED <<syncVars, jobVars>>
    /\ UNCHANGED auxVars

\* time passes
Tick ==
    /\ now < StartMs + MaxTicks * TickMs
    /\ now' = now + TickMs
    /\ UNCHANGED <<book, rows, upd, nupd, app>>
    /\ UNCHANGED <<syncVars, jobVars>>
    /\ UNCHANGED auxVars

\* no Storyteller database in play
DBQuiet ==
    /\ book = FALSE
    /\ rows = [u \in RowIds |-> NoRow]
    /\ now = StartMs
    /\ upd = NoUpdate
    /\ nupd = 0
    /\ app = NoApp

InitDB ==
    /\ book \in BOOLEAN
    /\ \E r1 \in {NoRow} \cup [present : {TRUE}, ts : InitRowTs, loc : InitLocs],
          r2 \in {NoRow} \cup [present : {TRUE}, ts : InitRowTs, loc : {AppLoc}] :
         rows = [u \in RowIds |-> IF u = 1 THEN r1 ELSE r2]
    /\ now = StartMs
    /\ upd = NoUpdate
    /\ nupd = 0
    /\ app = NoApp

\* ==================================================== the aligner functions
\* AudioTranscriber.get_text_at_time and find_time_for_text, and the
\* normalizer SyncManager._abs_to_percentage, each applied once to arguments
\* drawn from bounded sets.
\*
\* A transcript segment for get_text_at_time carries the length of its text
\* in characters; one for find_time_for_text carries the text itself, a
\* short sequence of characters (numbers).

\* TARGET_LEN of get_text_at_time, characters
TARGET_LEN == 400

\* the score above which find_time_for_text accepts a match (of 100)
match_thresh == 80

\* scores are kept in units of 1/ScoreUnit, which every length sum divides
ScoreUnit == 2520

\* segments in a transcript
MaxSegs == 3

TSeg(s, e, n) == [start |-> s, end |-> e, len |-> n]

QSeg(s, e, x) == [start |-> s, end |-> e, text |-> x]

ListOf(segs) == [kind |-> "list", segs |-> segs, duration |-> 0]

DurT(d) == [kind |-> "dict", segs |-> <<>>, duration |-> d]

\* text lengths of a segment: no text, short, longer, the target by itself
SegLens == {0, 150, 250, TARGET_LEN}

\* segment boundaries: touching segments, segments with silence between
\* them, overlapping segments
BoundShapes == {"touching", "gapped", "overlapping"}

SegStart(shape, i) ==
    IF shape = "touching" THEN 10 * (i - 1)
    ELSE IF shape = "gapped" THEN 12 * (i - 1) + 2
    ELSE 8 * (i - 1)

SegEnd(shape, i) ==
    IF shape = "touching" THEN 10 * i
    ELSE IF shape = "gapped" THEN 12 * (i - 1) + 10
    ELSE 8 * (i - 1) + 12

WindowTranscripts ==
    { ListOf([i \in 1..n |-> TSeg(SegStart(b, i), SegEnd(b, i), l[i])]) :
        n \in 1..MaxSegs, b \in BoundShapes, l \in [1..MaxSegs -> SegLens] }

WindowTimes == {0, 10, 12, 13, 23, 30, 40}

\* segment texts: Stem is contained in Long and in Near, scores exactly
\* match_thresh against Edge, and shares nothing with Other
Stem == <<1, 2, 3>>

Edge == <<1, 2, 9, 9>>

Long == <<1, 2, 3, 4, 5>>

Near == <<1, 2, 3, 4, 6>>

Other == <<7, 8>>

Texts == {Stem, Edge, Long, Near, Other}

MatchTranscripts ==
    { ListOf([i \in 1..n |-> QSeg(10 * (i - 1), 10 * i, x[i])]) :
        n \in 0..MaxSegs, x \in [1..MaxSegs -> Texts] }

\* audio positions given to the normalizer: negative, zero, inside, at the
\* end, beyond the end
NormTimes == {0 - 60, 0, 1, 1800, 3600, 3601, 7200}

NormTranscripts == TranscriptFiles \cup {DurT(0), DurT(7), ListOf(<<Seg(0, 7)>>)}

\* ---- get_text_at_time
\* the first segment whose interval contains the timestamp, or 0
RECURSIVE FirstContaining(_, _, _)
FirstContaining(data, timestamp, i) ==
    IF i > Len(data) THEN 0
    ELSE IF data[i].start <= timestamp /\ timestamp <= data[i].end THEN i
    ELSE FirstContaining(data, timestamp, i + 1)

\* min(abs(timestamp - seg['start']), abs(timestamp - seg['end']))
Dist(seg, timestamp) == Min(Abs(timestamp - seg.start), Abs(timestamp - seg.end))

\* the scan for the closest segment: a later segment replaces the one kept
\* only when its distance is strictly smaller
RECURSIVE Closest(_, _, _, _)
Closest(data, timestamp, i, best) ==
    IF i > Len(data) THEN best
    ELSE IF best = 0 \/ Dist(data[i], timestamp) < Dist(data[best], timestamp)
         THEN Closest(data, timestamp, i + 1, i)
         ELSE Closest(data, timestamp, i + 1, best)

\* target_idx (1-based; 0 = none)
TargetIdx(data, timestamp) ==
    LET c == FirstContaining(data, timestamp, 1)
    IN  IF c # 0 THEN c ELSE Closest(data, timestamp, 1, 0)

\* an expansion of one round only
ExpandOnce(data, idx, left, right, current_len) ==
    IF current_len >= TARGET_LEN THEN idx
    ELSE (IF left >= 1 THEN <<left>> ELSE <<>>) \o idx
           \o (IF right <= Len(data) THEN <<right>> ELSE <<>>)

\* an expansion that takes both neighbours in every round
RECURSIVE ExpandBoth(_, _, _, _, _)
ExpandBoth(data, idx, left, right, current_len) ==
    IF current_len >= TARGET_LEN THEN idx
    ELSE
      LET addL == left >= 1
          addR == right <= Len(data)
          idx2 == (IF addL THEN <<left>> ELSE <<>>) \o idx
                    \o (IF addR THEN <<right>> ELSE <<>>)
          len2 == current_len + (IF addL THEN data[left].len ELSE 0)
                    + (IF addR THEN data[right].len ELSE 0)
      IN  IF ~(addL \/ addR) THEN idx
          ELSE ExpandBoth(data, idx2, left - 1, right + 1, len2)

\* the while loop: prepend the left neighbour, stop if that reached the
\* target, append the right neighbour, stop if nothing was added
RECURSIVE Expand(_, _, _, _, _)
Expand(data, idx, left, right, current_len) ==
    IF current_len >= TARGET_LEN THEN idx
    ELSE
      LET addL == left >= 1
          idx1 == IF addL THEN <<left>> \o idx ELSE idx
          len1 == IF addL THEN current_len + data[left].len ELSE current_len
          left1 == IF addL THEN left - 1 ELSE left
      IN  IF len1 >= TARGET_LEN THEN idx1
          ELSE
            LET addR == right <= Len(data)
                idx2 == IF addR THEN idx1 \o <<right>> ELSE idx1
                len2 == IF addR THEN len1 + data[right].len ELSE len1
                right2 == IF addR THEN right + 1 ELSE right
            IN  IF ~(addL \/ addR) THEN idx2
                ELSE Expand(data, idx2, left1, right2, len2)

NotFound == [found |-> FALSE, idx |-> <<>>]

\* get_text_at_time: the segments whose texts are joined with " ", in the
\* order they are joined; not found when the file cannot be read as a list
\* of segments or has no segment
GetTextAtTime(T, timestamp) ==
    IF T.kind # "list" THEN NotFound
    ELSE
      LET target_idx == TargetIdx(T.segs, timestamp)
      IN  IF target_idx = 0 THEN NotFound
          ELSE [found |-> TRUE,
                idx |-> Expand(T.segs, <<target_idx>>, target_idx - 1,
                               target_idx + 1, T.segs[target_idx].len)]

\* ---- find_time_for_text
\* length of the longest common subsequence of two texts
RECURSIVE LCS(_, _)
LCS(a, b) ==
    IF Len(a) = 0 \/ Len(b) = 0 THEN 0
    ELSE IF Head(a) = Head(b) THEN 1 + LCS(Tail(a), Tail(b))
    ELSE Max(LCS(Tail(a), b), LCS(a, Tail(b)))

\* fuzz.ratio: 100 * 2 * LCS / (len(a) + len(b))
Ratio(a, b) ==
    IF Len(a) + Len(b) = 0 THEN 100 * ScoreUnit
    ELSE (200 * LCS(a, b) * ScoreUnit) \div (Len(a) + Len(b))

\* the pieces of the longer text the shorter one is aligned with: its
\* prefixes and suffixes shorter than m, and every piece of length m
Windows(l, m) ==
    { SubSeq(l, 1, k) : k \in 1..(m - 1) }
      \cup { SubSeq(l, i, i + m - 1) : i \in 1..(Len(l) - m + 1) }
      \cup { SubSeq(l, i, Len(l)) : i \in (Len(l) - m + 2)..Len(l) }

MaxOf(S) == CHOOSE x \in S : \A y \in S : y <= x

\* fuzz.partial_ratio: the best ratio of the shorter text against a piece of
\* the longer one
PartialRatio(s1, s2) ==
    LET s == IF Len(s1) <= Len(s2) THEN s1 ELSE s2
        l == IF Len(s1) <= Len(s2) THEN s2 ELSE s1
    IN  IF Len(s) = 0 THEN (IF Len(l) = 0 THEN 100 * ScoreUnit ELSE 0)
        ELSE MaxOf({ Ratio(s, w) : w \in Windows(l, Len(s)) })

ScoreTable == [p \in Texts \X Texts |-> PartialRatio(p[1], p[2])]

Score(q, x) == ScoreTable[<<q, x>>]

\* a scan that moves to a later choice with an equal score
RECURSIVE ExtractLast(_, _, _, _)
ExtractLast(q, texts, i, best) ==
    IF i > Len(texts) THEN best
    ELSE IF best = 0 \/ Score(q, texts[i]) >= Score(q, texts[best])
         THEN ExtractLast(q, texts, i + 1, i)
         ELSE ExtractLast(q, texts, i + 1, best)

\* process.extractOne: the index of the best-scoring choice, a later choice
\* replacing the one kept only when its score is strictly higher (0 = no
\* choices)
RECURSIVE ExtractOne(_, _, _, _)
ExtractOne(q, texts, i, best) ==
    IF i > Len(texts) THEN best
    ELSE IF best = 0 \/ Score(q, texts[i]) > Score(q, texts[best])
         THEN ExtractOne(q, texts, i + 1, i)
         ELSE ExtractOne(q, texts, i + 1, best)

\* an acceptance test that also passes at exactly the threshold
AcceptedOrEqual(score) == score >= match_thresh * ScoreUnit

\* match[1] > 80
Accepted(score) == score > match_thresh * ScoreUnit

\* find_time_for_text: the start of the best-scoring segment when its score
\* is accepted, None otherwise and when the file cannot be read as a list of
\* segments
FindTimeForText(T, search_text) ==
    IF T.kind # "list" THEN None
    ELSE
      LET texts == [i \in 1..Len(T.segs) |-> T.segs[i].text]
          index == ExtractOne(search_text, texts, 1, 0)
      IN  IF index # 0 /\ Accepted(Score(search_text, texts[index]))
          THEN T.segs[index].start
          ELSE None

\* ---- one call
NoInput == [fn |-> "none"]

NoCall == [called |-> FALSE, ret |-> None, found |-> FALSE, idx |-> <<>>]

NormInputs ==
    [fn : {"abs_to_percentage"}, abs_seconds : NormTimes, T : NormTranscripts]

WindowInputs ==
    [fn : {"get_text_at_time"},
     T : WindowTranscripts \cup {MissingT, EmptyListT, DictT},
     timestamp : WindowTimes]

MatchInputs ==
    [fn : {"find_time_for_text"}, T : MatchTranscripts \cup {MissingT, DictT},
     search_text : Texts]

ApplyAbsToPercentage ==
    /\ fin.fn = "abs_to_percentage" /\ ~fout.called
    /\ fout' = [NoCall EXCEPT !.called = TRUE,
                              !.ret = AbsToPercentage(fin.abs_seconds, fin.T)]
    /\ UNCHANGED <<fin, syncVars, jobVars, dbVars, leadVars, audioVars, discVars,
                 schedVars, apiVars>>

ApplyGetTextAtTime ==
    /\ fin.fn = "get_text_at_time" /\ ~fout.called
    /\ LET r == GetTextAtTime(fin.T, fin.timestamp)
       IN  fout' = [NoCall EXCEPT !.called = TRUE, !.found = r.found, !.idx = r.idx]
    /\ UNCHANGED <<fin, syncVars, jobVars, dbVars, leadVars, audioVars, discVars,
                 schedVars, apiVars>>

ApplyFindTimeForText ==
    /\ fin.fn = "find_time_for_text" /\ ~fout.called
    /\ fout' = [NoCall EXCEPT !.called = TRUE,
                              !.ret = FindTimeForText(fin.T, fin.search_text)]
    /\ UNCHANGED <<fin, syncVars, jobVars, dbVars, leadVars, audioVars, discVars,
                 schedVars, apiVars>>

\* ============================================================ the scheduler
\* SyncManager.run_daemon: three jobs registered with the schedule library,
\* one direct call of sync_cycle and of run_discovery, then the loop
\* run_pending / sleep(30).  All of it runs in the one thread of the process.
\* The clock counts steps of 30 s, the length of the sleep.
Jobs == {"sync_cycle", "check_pending_jobs", "run_discovery"}

\* the order in which run_daemon registers the jobs
JobOrder == <<"sync_cycle", "check_pending_jobs", "run_discovery">>

\* every(5).minutes (SYNC_PERIOD_MINS default), every(1).minutes,
\* every(15).minutes, in clock steps
Interval(j) ==
    IF j = "sync_cycle" THEN 10
    ELSE IF j = "check_pending_jobs" THEN 2
    ELSE 30

\* clock steps
MaxClock == 12

Rank(j) == CHOOSE i \in 1..Len(JobOrder) : JobOrder[i] = j

\* sorted(runnable_jobs): by next_run, jobs equally due in registration order
RECURSIVE SortJobs(_)
SortJobs(S) ==
    IF S = {} THEN <<>>
    ELSE LET j == CHOOSE x \in S :
                    \A y \in S :
                        \/ nextrun[x] < nextrun[y]
                        \/ nextrun[x] = nextrun[y] /\ Rank(x) <= Rank(y)
         IN  <<j>> \o SortJobs(S \ {j})

\* the jobs run_pending finds due (job.should_run)
Due == {j \in Jobs : nextrun[j] <= clock}

\* a scheduler that starts each job in a thread of its own and goes on
ReturnedAlways == TRUE

\* the thread is not inside a job: the call it made last has returned
Returned == \A j \in Jobs : running[j] = 0

\* the thread calls job j: directly at the start of run_daemon, or from
\* run_pending as the next due job
SchedBegin(j) ==
    /\ Returned
    /\ \/ spc = "first_sync" /\ j = "sync_cycle"
          /\ spc' = "first_discovery" /\ queue' = queue
       \/ spc = "first_discovery" /\ j = "run_discovery"
          /\ spc' = "pending" /\ queue' = queue
       \/ spc = "run" /\ queue # <<>> /\ j = Head(queue)
          /\ spc' = spc /\ queue' = Tail(queue)
    /\ running' = [running EXCEPT ![j] = @ + 1]
    /\ since' = [since EXCEPT ![j] = clock]
    /\ viaSched' = [viaSched EXCEPT ![j] = (spc = "run")]
    /\ mapidx' = IF j = "sync_cycle" THEN 0 ELSE mapidx
    /\ UNCHANGED <<nextrun, clock, inproc>>
    /\ UNCHANGED <<syncVars, jobVars, dbVars, leadVars, audioVars, discVars,
                 fnVars, apiVars>>

\* job j returns; a job run by run_pending is scheduled again, its interval
\* after the return
SchedEnd(j) ==
    /\ running[j] > 0
    /\ j = "sync_cycle" => (mapidx = NumMappings /\ inproc = {})
    /\ running' = [running EXCEPT ![j] = @ - 1]
    /\ nextrun' = IF viaSched[j]
                  THEN [nextrun EXCEPT ![j] = clock + Interval(j)]
                  ELSE nextrun
    /\ UNCHANGED <<spc, queue, clock, since, viaSched, mapidx, inproc>>
    /\ UNCHANGED <<syncVars, jobVars, dbVars, leadVars, audioVars, discVars,
                 fnVars, apiVars>>

\* sync_cycle: the body of `for mapping in ...` begins for the next mapping
BeginMapping ==
    /\ running["sync_cycle"] > 0
    /\ inproc = {}
    /\ mapidx < NumMappings
    /\ inproc' = {mapidx + 1}
    /\ UNCHANGED <<spc, queue, running, nextrun, clock, since, viaSched, mapidx>>
    /\ UNCHANGED <<syncVars, jobVars, dbVars, leadVars, audioVars, discVars,
                 fnVars, apiVars>>

\* ... and ends
EndMapping ==
    /\ inproc # {}
    /\ inproc' = {}
    /\ mapidx' = mapidx + 1
    /\ UNCHANGED <<spc, queue, running, nextrun, clock, since, viaSched>>
    /\ UNCHANGED <<syncVars, jobVars, dbVars, leadVars, audioVars, discVars,
                 fnVars, apiVars>>

\* schedule.run_pending(): collect the due jobs, sorted
RunPending ==
    /\ spc = "pending"
    /\ Returned
    /\ queue' = SortJobs(Due)
    /\ spc' = "run"
    /\ UNCHANGED <<running, nextrun, clock, since, viaSched, mapidx, inproc>>
    /\ UNCHANGED <<syncVars, jobVars, dbVars, leadVars, audioVars, discVars,
                 fnVars, apiVars>>

\* run_pending returns after the last due job
EndPass ==
    /\ spc = "run"
    /\ queue = <<>>
    /\ Returned
    /\ spc' = "sleep"
    /\ UNCHANGED <<queue, running, nextrun, clock, since, viaSched, mapidx, inproc>>
    /\ UNCHANGED <<syncVars, jobVars, dbVars, leadVars, audioVars, discVars,
                 fnVars, apiVars>>

\* time.sleep(30)
Sleep ==
    /\ spc = "sleep"
    /\ clock < MaxClock
    /\ clock' = clock + 1
    /\ spc' = "pending"
    /\ UNCHANGED <<queue, running, nextrun, since, viaSched, mapidx, inproc>>
    /\ UNCHANGED <<syncVars, jobVars, dbVars, leadVars, audioVars, discVars,
                 fnVars, apiVars>>

\* a job takes time: 30 s pass while it runs
Elapse ==
    /\ \E j \in Jobs : running[j] > 0
    /\ clock < MaxClock
    /\ clock' = clock + 1
    /\ UNCHANGED <<spc, queue, running, nextrun, since, viaSched, mapidx, inproc>>
    /\ UNCHANGED <<syncVars, jobVars, dbVars, leadVars, audioVars, discVars,
                 fnVars, apiVars>>

\* run_daemon after the three schedule.every(...).do(...) lines
InitSched ==
    /\ spc = "first_sync"
    /\ queue = <<>>
    /\ running = [j \in Jobs |-> 0]
    /\ nextrun = [j \in Jobs |-> Interval(j)]
    /\ clock = 0
    /\ since = [j \in Jobs |-> 0]
    /\ viaSched = [j \in Jobs |-> FALSE]
    /\ mapidx = 0
    /\ inproc = {}

\* run_daemon not entered
SchedQuiet ==
    /\ spc = "off"
    /\ queue = <<>>
    /\ running = [j \in Jobs |-> 0]
    /\ nextrun = [j \in Jobs |-> Interval(j)]
    /\ clock = 0
    /\ since = [j \in Jobs |-> 0]
    /\ viaSched = [j \in Jobs |-> FALSE]
    /\ mapidx = 0
    /\ inproc = {}

\* ==================================================== the Storyteller client
\* StorytellerDBWithAPI (storyteller_api.py): the constructor picks the REST
\* API client or the SQLite client, every call is handed to the one picked.
\* StorytellerAPIClient keeps a bearer token and a book cache; every HTTP
\* request goes through _make_request.  Time is in seconds.

\* _token_max_age
token_max_age == 30

\* the age beyond which find_book_by_title refreshes the book cache
cache_max_age == 3600

\* time.time() when the client is constructed
ApiStartS == 2 * cache_max_age

\* calls of the client
MaxApiCalls == 2

\* steps of the clock, and the length of one step in seconds
MaxApiTicks == 2

ApiTickS == 15

NoToken == [has |-> FALSE, ts |-> 0]

\* _book_cache = {} and _cache_timestamp = 0
NoCache == [books |-> "empty", ts |-> 0]

\* what /api/v2/books lists: nothing, other books only, the book looked for
Listings == {"empty", "other", "book"}

\* a freshness test that still passes at exactly the max age
TokenFreshOrEqual(age) == age <= token_max_age

\* (time.time() - self._token_timestamp) < self._token_max_age
TokenFresh(age) == age < token_max_age

\* what the server does with one _make_request: whether POST /api/token
\* gives a token, how the request ends (a response that is not 401, a 401,
\* an exception), whether the token fetch after a 401 gives a token, and
\* how the request sent again ends
ReqEnvs ==
    { e \in [fetch : BOOLEAN, st : {"ok", "unauthorized", "raised"},
             refetch : BOOLEAN, st2 : {"ok", "unauthorized", "raised"}] :
        /\ e.st # "unauthorized" => e.refetch
        /\ (e.st # "unauthorized" \/ ~e.refetch) => e.st2 = "ok" }

\* the environments that differ for a client whose token state is t
EnvsFor(t) ==
    {e \in ReqEnvs : (t.has /\ TokenFresh(tnow - t.ts)) => e.fetch}

Sent(cached, age) == [cached |-> cached, age |-> age]

Req(t0, t, sent, got, resp, fetches, failed) ==
    [hadtok |-> t0.has, age0 |-> tnow - t0.ts, tok |-> t, sent |-> sent,
     got |-> got, resp |-> resp, fetches |-> fetches, failed |-> failed]

\* the response returned for a request that ended as st ("none" = None)
Response(st) == IF st = "raised" THEN "none" ELSE st

\* a _make_request that sends the request again after a refresh that failed
MakeRequestResend(t, e) ==
    LET cached == t.has /\ TokenFresh(tnow - t.ts)
        t1 == IF cached \/ ~e.fetch THEN t ELSE [has |-> TRUE, ts |-> tnow]
        f1 == IF cached THEN 0 ELSE 1
        first == Sent(cached, tnow - t1.ts)
    IN  IF ~cached /\ ~e.fetch
        THEN Req(t, t1, <<>>, <<>>, "none", 1, TRUE)
        ELSE IF e.st = "raised"
        THEN Req(t, t1, <<first>>, <<"raised">>, "none", f1, FALSE)
        ELSE IF e.st = "ok"
        THEN Req(t, t1, <<first>>, <<"ok">>, "ok", f1, FALSE)
        ELSE IF ~e.refetch
        THEN Req(t, [t1 EXCEPT !.has = FALSE], <<first, first>>,
                 <<"unauthorized", e.st2>>, Response(e.st2), f1 + 1, TRUE)
        ELSE Req(t, [has |-> TRUE, ts |-> tnow], <<first, Sent(FALSE, 0)>>,
                 <<"unauthorized", e.st2>>, Response(e.st2), f1 + 1, FALSE)

\* _make_request with _get_fresh_token: the token state afterwards, the
\* requests sent (each with whether its token came from the cache, and the
\* token's age), how each of them ended, the response returned ("none" =
\* None), the number of token fetches tried and whether one failed
MakeRequest(t, e) ==
    LET cached == t.has /\ TokenFresh(tnow - t.ts)
        t1 == IF cached \/ ~e.fetch THEN t ELSE [has |-> TRUE, ts |-> tnow]
        f1 == IF cached THEN 0 ELSE 1
        first == Sent(cached, tnow - t1.ts)
    IN  IF ~cached /\ ~e.fetch
        THEN Req(t, t1, <<>>, <<>>, "none", 1, TRUE)
        ELSE IF e.st = "raised"
        THEN Req(t, t1, <<first>>, <<"raised">>, "none", f1, FALSE)
        ELSE IF e.st = "ok"
        THEN Req(t, t1, <<first>>, <<"ok">>, "ok", f1, FALSE)
        ELSE IF ~e.refetch
        THEN Req(t, [t1 EXCEPT !.has = FALSE], <<first>>, <<"unauthorized">>,
                 "none", f1 + 1, TRUE)
        ELSE Req(t, [has |-> TRUE, ts |-> tnow], <<first, Sent(FALSE, 0)>>,
                 <<"unauthorized", e.st2>>, Response(e.st2), f1 + 1, FALSE)

\* _refresh_book_cache on the response of GET /api/v2/books
Refreshed(c, r, listed) ==
    IF r.resp = "ok" THEN [books |-> listed, ts |-> tnow] ELSE c

\* the backend a call is handed to
Primary(op) ==
    IF op = "get_progress_with_fragment" /\ db_fallback THEN "sqlite"
    ELSE IF api_client THEN "api"
    ELSE IF db_fallback THEN "sqlite"
    ELSE "none"

\* a client that turns to SQLite when the API gave no answer
TouchedWithFallback(op, answered) ==
    IF Primary(op) = "none" THEN {}
    ELSE IF Primary(op) = "api" /\ ~answered THEN {"api", "sqlite"}
    ELSE {Primary(op)}

\* the backends a call uses
Touched(op, answered) ==
    IF Primary(op) = "none" THEN {} ELSE {Primary(op)}

NoApiCall == [op |-> "none", touched |-> {}, reqs |-> <<>>, answered |-> FALSE]

\* StorytellerDBWithAPI.__init__
WithAPIInit ==
    /\ ~built
    /\ \E configured, connOk, dbOk \in BOOLEAN :
        LET api == configured /\ connOk
            db == ~api /\ dbOk
        IN  /\ api_client' = api
            /\ db_fallback' = db
            /\ chosen' = IF api THEN "api" ELSE IF db THEN "sqlite" ELSE "none"
            /\ tok' = IF api THEN [has |-> TRUE, ts |-> tnow] ELSE NoToken
    /\ built' = TRUE
    /\ UNCHANGED <<cache, tnow, stcall, ncalls>>
    /\ UNCHANGED <<syncVars, jobVars, dbVars, leadVars, audioVars, discVars,
                 fnVars, schedVars>>

\* a call of get_progress, get_progress_with_fragment or update_progress:
\* by the API client find_book_by_title (up to two cache refreshes) and,
\* when the book is found, the position request
ClientCall(op) ==
    /\ built
    /\ ncalls < MaxApiCalls
    /\ ncalls' = ncalls + 1
    /\ IF Primary(op) # "api"
       THEN /\ stcall' = [NoApiCall EXCEPT !.op = op,
                                         !.touched = Touched(op, Primary(op) = "sqlite"),
                                         !.answered = Primary(op) = "sqlite"]
            /\ UNCHANGED <<tok, cache>>
       ELSE LET stale == tnow - cache.ts > cache_max_age
                skip == CHOOSE e \in ReqEnvs : TRUE
            IN  \E e1 \in (IF stale THEN EnvsFor(tok) ELSE {skip}) :
                LET r1 == MakeRequest(tok, e1)
                    t1 == IF stale THEN r1.tok ELSE tok
                    listed1 == stale /\ r1.resp = "ok"
                IN  \E l1 \in (IF listed1 THEN Listings ELSE {"empty"}) :
                LET c1 == IF stale THEN Refreshed(cache, r1, l1) ELSE cache
                    again == c1.books = "empty"
                IN  \E e2 \in (IF again THEN EnvsFor(t1) ELSE {skip}) :
                LET r2 == MakeRequest(t1, e2)
                    t2 == IF again THEN r2.tok ELSE t1
                    listed2 == again /\ r2.resp = "ok" /\ ~listed1
                IN  \E l2 \in (IF listed2 THEN Listings ELSE {"empty"}) :
                LET c2 == IF again THEN Refreshed(c1, r2, l2) ELSE c1
                    found == c2.books = "book"
                IN  \E e3 \in (IF found THEN EnvsFor(t2) ELSE {skip}) :
                LET r3 == MakeRequest(t2, e3)
                    reqs == (IF stale THEN <<r1>> ELSE <<>>)
                              \o (IF again THEN <<r2>> ELSE <<>>)
                              \o (IF found THEN <<r3>> ELSE <<>>)
                    answered == found /\ r3.resp = "ok"
                IN  /\ tok' = IF found THEN r3.tok ELSE t2
                    /\ cache' = c2
                    /\ stcall' = [op |-> op, touched |-> Touched(op, answered),
                                  reqs |-> reqs, answered |-> answered]
    /\ UNCHANGED <<built, api_client, db_fallback, chosen, tnow>>
    /\ UNCHANGED <<syncVars, jobVars, dbVars, leadVars, audioVars, discVars,
                 fnVars, schedVars>>

\* get_progress, get_progress_with_fragment, update_progress
ClientOps == {"get_progress", "get_progress_with_fragment", "update_progress"}

\* time passes
ApiTick ==
    /\ tnow < ApiStartS + MaxApiTicks * ApiTickS
    /\ tnow' = tnow + ApiTickS
    /\ UNCHANGED <<built, api_client, db_fallback, chosen, tok, cache, stcall, ncalls>>
    /\ UNCHANGED <<syncVars, jobVars, dbVars, leadVars, audioVars, discVars,
                 fnVars, schedVars>>

\* before the client is constructed
ApiQuiet ==
    /\ built = FALSE
    /\ api_client = FALSE
    /\ db_fallback = FALSE
    /\ chosen = "none"
    /\ tok = NoToken
    /\ cache = NoCache
    /\ tnow = ApiStartS
    /\ stcall = NoApiCall
    /\ ncalls = 0

\* ===================================== the Storyteller reads of a sync cycle
\* sync_cycle reads Storyteller twice when Storyteller leads: the percentage
\* with the other sources (main.py:187), and the locator's href and fragment
\* when the text is looked up (main.py:236).  Fragments exist only in the
\* SQLite database, which the Storyteller application writes too.

\* where an element of the book is: the element the application's first
\* locator names is at 50%, the one it names when it syncs at AppPct
AnchorPct(frag) ==
    IF frag = "p12" THEN AppLoc.tp
    ELSE IF frag = "p6" THEN AppPct
    ELSE None

NoLead == [pc |-> "idle", st_pct |-> 0, frag |-> "", text |-> "none", at |-> None]

\* get_progress_with_fragment: frag_id of the row that comes first by
\* timestamp; None ("") without book, row, locator or '#', and on a JSON
\* error
LatestFragment ==
    IF ~book \/ LatestRows = {} THEN {""}
    ELSE { IF rows[u].loc.json # "ok" THEN "" ELSE FragmentId(rows[u].loc.href)
           : u \in LatestRows }

\* st_pct, _ = self.storyteller_db.get_progress(epub); st_pct = st_pct or 0.0
ReadProgress ==
    /\ lead.pc \in {"idle", "done"}
    /\ \E p \in LatestProgress :
         lead' = [NoLead EXCEPT !.pc = "read", !.st_pct = OrZero(p)]
    /\ UNCHANGED <<syncVars, jobVars, dbVars, fnVars, schedVars, apiVars,
                   audioVars, discVars>>

\* leader == 'STORYTELLER' (its percentage is above KoSync's, so above 0):
\* the text of the fragment when the locator has one and the element is
\* found, else the text at st_pct; at: where in the book the text taken is
ReadFragment ==
    /\ lead.pc = "read"
    /\ lead.st_pct > 0
    /\ \E frag \in LatestFragment, fragText, pctText \in BOOLEAN :
         LET text == IF frag # "" /\ fragText THEN "fragment"
                     ELSE IF pctText THEN "percentage"
                     ELSE "none"
         IN  lead' = [pc |-> "done", st_pct |-> lead.st_pct, frag |-> frag,
                      text |-> text,
                      at |-> IF text = "fragment" THEN AnchorPct(frag)
                             ELSE IF text = "percentage" THEN lead.st_pct
                             ELSE None]
    /\ UNCHANGED <<syncVars, jobVars, dbVars, fnVars, schedVars, apiVars,
                   audioVars, discVars>>

\* no cycle has read the database
LeadQuiet == lead = NoLead

\* ================================================== one-time transcription
\* AudioTranscriber.process_audio(abs_id, audio_urls): return the transcript
\* that exists, or download the parts into the book's cache directory,
\* transcribe them and save the transcript; the except clause removes the
\* transcript and re-raises, the finally clause removes the cache directory.
\* Removing a file or a directory that exists is taken to succeed.

\* parts of an audiobook
MaxParts == 2

\* calls of process_audio
MaxRuns == 2

\* outfile: "absent", "old" (written before the model starts), "partial"
\* (opened for writing, not all of it dumped), "new" (written by a call)
NoRun ==
    [pc |-> "idle", calls |-> 0, parts |-> 0, got |-> 0, done |-> 0,
     found |-> "absent", made |-> FALSE, failed |-> FALSE, ret |-> "none"]

\* a clause that leaves the file it finds
ExceptKeeps(file) == file

\* if output_file.exists(): os.remove(output_file)
ExceptRemoves(file) == "absent"

\* the call begins: `if output_file.exists(): return output_file`
ProcessAudio ==
    /\ pa.pc = "idle"
    /\ pa.calls < MaxRuns
    /\ \E n \in 1..MaxParts :
         pa' = [NoRun EXCEPT !.calls = pa.calls + 1, !.parts = n, !.found = outfile,
                             !.pc = IF outfile # "absent" THEN "idle" ELSE "prepare",
                             !.ret = IF outfile # "absent" THEN "file" ELSE "none"]
    /\ UNCHANGED <<outfile, cachedir>>
    /\ UNCHANGED <<syncVars, jobVars, dbVars, fnVars, schedVars, apiVars,
                   leadVars, discVars>>

\* rmtree of a cache directory left behind, then mkdir; both outside the try
PrepareCache ==
    /\ pa.pc = "prepare"
    /\ \E r \in {"ok", "rmtree_raises", "mkdir_raises"} :
         /\ r = "rmtree_raises" => cachedir
         /\ cachedir' = IF r = "ok" THEN TRUE ELSE IF r = "mkdir_raises" THEN FALSE ELSE cachedir
         /\ pa' = IF r = "ok" THEN [pa EXCEPT !.pc = "download", !.made = TRUE]
                   ELSE [pa EXCEPT !.pc = "idle", !.failed = TRUE, !.ret = "raised"]
    /\ UNCHANGED outfile
    /\ UNCHANGED <<syncVars, jobVars, dbVars, fnVars, schedVars, apiVars,
                   leadVars, discVars>>

\* phase 1, one part: requests.get, the copy into the cache directory and
\* the size test; any failure is re-raised
Download ==
    /\ pa.pc = "download"
    /\ pa.got < pa.parts
    /\ \E ok \in BOOLEAN :
         pa' = IF ok THEN [pa EXCEPT !.got = @ + 1]
               ELSE [pa EXCEPT !.pc = "except"]
    /\ UNCHANGED <<outfile, cachedir>>
    /\ UNCHANGED <<syncVars, jobVars, dbVars, fnVars, schedVars, apiVars,
                   leadVars, discVars>>

\* WhisperModel(...) once every part is cached
LoadModel ==
    /\ pa.pc = "download"
    /\ pa.got = pa.parts
    /\ \E ok \in BOOLEAN :
         pa' = [pa EXCEPT !.pc = IF ok THEN "transcribe" ELSE "except"]
    /\ UNCHANGED <<outfile, cachedir>>
    /\ UNCHANGED <<syncVars, jobVars, dbVars, fnVars, schedVars, apiVars,
                   leadVars, discVars>>

\* phase 2, one part: model.transcribe and the loop over its segments
Transcribe ==
    /\ pa.pc = "transcribe"
    /\ pa.done < pa.got
    /\ \E ok \in BOOLEAN :
         pa' = IF ok THEN [pa EXCEPT !.done = @ + 1]
               ELSE [pa EXCEPT !.pc = "except"]
    /\ UNCHANGED <<outfile, cachedir>>
    /\ UNCHANGED <<syncVars, jobVars, dbVars, fnVars, schedVars, apiVars,
                   leadVars, discVars>>

\* phase 3: open(output_file, 'w') and json.dump; a dump that fails leaves
\* what it had written
Save ==
    /\ pa.pc = "transcribe"
    /\ pa.done = pa.got
    /\ \E r \in {"ok", "open_raises", "dump_raises"} :
         /\ outfile' = IF r = "ok" THEN "new"
                        ELSE IF r = "dump_raises" THEN "partial"
                        ELSE outfile
         /\ pa' = [pa EXCEPT !.pc = IF r = "ok" THEN "finally" ELSE "except"]
    /\ UNCHANGED cachedir
    /\ UNCHANGED <<syncVars, jobVars, dbVars, fnVars, schedVars, apiVars,
                   leadVars, discVars>>

\* except Exception: remove the transcript if it exists, raise
Except ==
    /\ pa.pc = "except"
    /\ outfile' = IF outfile # "absent" THEN ExceptRemoves(outfile) ELSE outfile
    /\ pa' = [pa EXCEPT !.pc = "finally", !.failed = TRUE]
    /\ UNCHANGED cachedir
    /\ UNCHANGED <<syncVars, jobVars, dbVars, fnVars, schedVars, apiVars,
                   leadVars, discVars>>

\* finally: remove the cache directory if it exists; the call returns the
\* file or raises
Finally ==
    /\ pa.pc = "finally"
    /\ cachedir' = FALSE
    /\ pa' = [pa EXCEPT !.pc = "idle", !.ret = IF pa.failed THEN "raised" ELSE "file"]
    /\ UNCHANGED outfile
    /\ UNCHANGED <<syncVars, jobVars, dbVars, fnVars, schedVars, apiVars,
                   leadVars, discVars>>

\* the data directory when the manager starts: a transcript of an earlier
\* run or none, a cache directory an interrupted run left behind or none
InitAudio ==
    /\ outfile \in {"absent", "old"}
    /\ cachedir \in BOOLEAN
    /\ pa = NoRun

AudioQuiet ==
    /\ outfile = "absent"
    /\ cachedir = FALSE
    /\ pa = NoRun

\* ================================================================ discovery
\* SuggestionManager.run_discovery_cycle(mapped_abs_ids): audiobooks in
\* progress are matched with ebooks, books read in Storyteller with
\* audiobooks; a match is stored in self.suggestions under "<source>:<id>".
\* Time is in days.

\* discovery cycles
MaxDisc == 2

\* steps of the clock, and the length of one step in days
MaxDays == 1

DayStep == 8

\* max_age_days of _cleanup_stale_suggestions
max_age_days == 7

\* time.time() when the manager starts
DiscStartD == max_age_days + 3

\* the age of the audiobook cache beyond which it is refreshed, seconds
disc_cache_max_age == 3600

\* audiobooks of the library and books read in Storyteller
AbsIds == {"a1", "a2"}

StIds == {"s1"}

\* _generate_key(source, source_id)
GenerateKey(source, source_id) == <<source, source_id>>

Keys == {GenerateKey("ABS", a) : a \in AbsIds} \cup {GenerateKey("STORYTELLER", b) : b \in StIds}

NoSuggestion ==
    [state |-> "none", timestamp |-> 0, confidence |-> "", source_id |-> "",
     match_id |-> ""]

\* token_sort_ratio scores: at and above the two thresholds
TitleScores == {80, 81, 92, 93}

\* _calculate_confidence on a score
CalculateConfidence(score) ==
    IF score > 92 THEN "High"
    ELSE IF score > 80 THEN "Medium"
    ELSE "Low"

\* highest_score > 80 in _find_best_ebook_match and _find_best_audio_match
BestMatch(score) == score > 80

\* a test that lets a dismissed suggestion be made again
KeyPending(sugg, key) == sugg[key].state = "pending"

\* key in self.suggestions
KeyTaken(sugg, key) == sugg[key].state # "none"

\* _create_suggestion: nothing is stored when the confidence is Low, or
\* when the source is Storyteller and no ebook file has its title
CreateSuggestion(sugg, key, source_id, match_id, score, ebook_found) ==
    IF CalculateConfidence(score) = "Low" THEN sugg
    ELSE IF key[1] = "STORYTELLER" /\ ~ebook_found THEN sugg
    ELSE [sugg EXCEPT ![key] =
            [state |-> "pending", timestamp |-> dclock,
             confidence |-> CalculateConfidence(score),
             source_id |-> source_id, match_id |-> match_id]]

\* 1. ABS -> ebook: the loop over the audiobooks in progress; m[a].best is
\* the score of the best ebook for a's title, m[a].conf the score of the
\* title against the file name
RECURSIVE DiscoverABS(_, _, _, _, _)
DiscoverABS(sugg, items, i, mapped, m) ==
    IF i > Len(items) THEN sugg
    ELSE
      LET a == items[i]
          key == GenerateKey("ABS", a)
      IN  IF a \in mapped \/ KeyTaken(sugg, key) \/ ~BestMatch(m[a].best)
          THEN DiscoverABS(sugg, items, i + 1, mapped, m)
          ELSE DiscoverABS(CreateSuggestion(sugg, key, a, "", m[a].conf, TRUE),
                           items, i + 1, mapped, m)

\* 2. Storyteller -> audio: the loop over the books read lately; st.audio
\* is the best audiobook of the cache for the title ("": none)
RECURSIVE DiscoverST(_, _, _, _, _)
DiscoverST(sugg, recent, i, mapped, st) ==
    IF i > Len(recent) THEN sugg
    ELSE
      LET key == GenerateKey("STORYTELLER", recent[i])
      IN  IF st.audio = "" \/ st.audio \in mapped \/ KeyTaken(sugg, key)
          THEN DiscoverST(sugg, recent, i + 1, mapped, st)
          ELSE DiscoverST(CreateSuggestion(sugg, key, recent[i], st.audio,
                                           st.conf, st.ebook_found),
                          recent, i + 1, mapped, st)

\* _cleanup_stale_suggestions
CleanupStale(sugg) ==
    [k \in Keys |->
        IF sugg[k].state \in {"pending", "dismissed"}
           /\ sugg[k].timestamp < dclock - max_age_days
        THEN NoSuggestion
        ELSE sugg[k]]

\* abs_client.get_in_progress(): an exception, or a list of audiobooks (an
\* audiobook may be listed twice)
InProgressResults ==
    [raises : {TRUE}, items : {<<>>}]
      \cup [raises : {FALSE},
           items : {<<>>, <<"a1">>} \cup {<<"a1", a>> : a \in AbsIds}]

\* the sets of mapped audiobooks a cycle is given
MappedSets == {{}, {"a1"}}

\* what the title matching can give for an audiobook in progress: no ebook
\* scoring above 80, or a best ebook and the score of its file name
NoMatch == [best |-> 80, conf |-> 80]

MatchResultsFor(is_live) ==
    IF is_live THEN {NoMatch} \cup [best : {81}, conf : TitleScores] ELSE {NoMatch}

\* what it can give for a book read in Storyteller: no audiobook of the
\* cache scoring above 80, or a best audiobook, the score of its title, and
\* whether an ebook file has the book's title
NoAudio == [audio |-> "", conf |-> 80, ebook_found |-> TRUE]

AudioResultsFor(recent, books, mapped) ==
    IF recent = <<>> THEN {NoAudio}
    ELSE {NoAudio} \cup [audio : books \cap mapped, conf : {80}, ebook_found : {TRUE}]
           \cup [audio : books \ mapped, conf : TitleScores, ebook_found : BOOLEAN]

\* items: the audiobooks and the books the cycle came upon
NoDisc == [n |-> 0, raised |-> FALSE, mapped |-> {}, items |-> {}]

\* SuggestionManager.run_discovery_cycle(mapped_abs_ids)
RunDiscoveryCycle ==
    /\ disc.n < MaxDisc
    /\ LET stale == abcache.books = {}
                      \/ (dclock - abcache.ts) * 86400 > disc_cache_max_age
       IN  \E mapped \in MappedSets,
              listed \in (IF stale THEN {{}, AbsIds} ELSE {{}}),
              inprog \in InProgressResults :
           LET c == IF stale THEN [books |-> listed, ts |-> dclock] ELSE abcache
               live == {a \in AbsIds :
                           /\ \E i \in 1..Len(inprog.items) : inprog.items[i] = a
                           /\ a \notin mapped
                           /\ ~KeyTaken(suggestions, GenerateKey("ABS", a))}
           IN  /\ abcache' = c
               /\ IF inprog.raises
                  THEN /\ UNCHANGED suggestions
                       /\ disc' = [NoDisc EXCEPT !.n = disc.n + 1, !.raised = TRUE,
                                                 !.mapped = mapped]
                  ELSE \E m \in {f \in [AbsIds -> MatchResultsFor(TRUE)] :
                                    \A a \in AbsIds : f[a] \in MatchResultsFor(a \in live)},
                          recent \in {<<>>} \cup {<<b>> : b \in StIds} :
                       \E st \in AudioResultsFor(recent, c.books, mapped) :
                       /\ suggestions' =
                             CleanupStale(DiscoverST(
                                 DiscoverABS(suggestions, inprog.items, 1, mapped, m),
                                 recent, 1, mapped, st))
                       /\ disc' = [n |-> disc.n + 1, raised |-> FALSE,
                                   mapped |-> mapped,
                                   items |-> {inprog.items[i] : i \in 1..Len(inprog.items)}
                                               \cup {recent[i] : i \in 1..Len(recent)}]
    /\ UNCHANGED dclock
    /\ UNCHANGED <<syncVars, jobVars, dbVars, fnVars, schedVars, apiVars,
                   leadVars, audioVars>>

\* the user dismisses a pending suggestion
Dismiss(k) ==
    /\ suggestions[k].state = "pending"
    /\ suggestions' = [suggestions EXCEPT ![k].state = "dismissed"]
    /\ UNCHANGED <<abcache, dclock, disc>>
    /\ UNCHANGED <<syncVars, jobVars, dbVars, fnVars, schedVars, apiVars,
                   leadVars, audioVars>>

\* time passes
DiscTick ==
    /\ dclock < DiscStartD + MaxDays * DayStep
    /\ dclock' = dclock + DayStep
    /\ UNCHANGED <<suggestions, abcache, disc>>
    /\ UNCHANGED <<syncVars, jobVars, dbVars, fnVars, schedVars, apiVars,
                   leadVars, audioVars>>

\* SuggestionManager.__init__ with no suggestions.json
DiscQuiet ==
    /\ suggestions = [k \in Keys |-> NoSuggestion]
    /\ abcache = [books |-> {}, ts |-> 0]
    /\ dclock = DiscStartD
    /\ disc = NoDisc

FnQuiet ==
    /\ fin = NoInput
    /\ fout = NoCall

RestQuiet == LeadQuiet /\ AudioQuiet /\ DiscQuiet

AuxQuiet == FnQuiet /\ SchedQuiet /\ ApiQuiet /\ RestQuiet

\* ----------------------------------------------------------- the systems
Init == InitSync /\ JobsQuiet /\ DBQuiet /\ AuxQuiet

Next == SyncCycle \/ ReaderMoves

\* one active mapping reconciled cycle after cycle
Spec == Init /\ [][Next]_vars

InitLife ==
    /\ InitJobs
    /\ absPos = 0 /\ koPos = 0 /\ stPos = None
    /\ transcript = MissingT
    /\ state = NoState /\ cyc = NoCycle /\ prevCyc = Summary(NoCycle)
    /\ ncycles = 0 /\ nmoves = 0 /\ nfaults = 0 /\ creep = NoCreep
    /\ DBQuiet
    /\ AuxQuiet

NextLife ==
    \/ Startup
    \/ \E m \in Mappings : JobStart(m)
    \/ JobSetup
    \/ JobAutomatch
    \/ SyncPass
    \/ Crash

\* the manager process over the mapping database
SpecLife == InitLife /\ [][NextLife]_vars

InitArb ==
    /\ InitDB
    /\ JobsQuiet
    /\ absPos = 0 /\ koPos = 0 /\ stPos = None
    /\ transcript = MissingT
    /\ state = NoState /\ cyc = NoCycle /\ prevCyc = Summary(NoCycle)
    /\ ncycles = 0 /\ nmoves = 0 /\ nfaults = 0 /\ creep = NoCreep
    /\ AuxQuiet

NextArb == UpdateProgress \/ ForcePositionUpdate \/ AppSync \/ Tick

\* the engine's writer over one book of the Storyteller database
SpecArb == InitArb /\ [][NextArb]_vars

InitFn ==
    /\ fin \in NormInputs \cup WindowInputs \cup MatchInputs
    /\ fout = NoCall
    /\ SchedQuiet
    /\ ApiQuiet
    /\ RestQuiet
    /\ absPos = 0 /\ koPos = 0 /\ stPos = None
    /\ transcript = MissingT
    /\ state = NoState /\ cyc = NoCycle /\ prevCyc = Summary(NoCycle)
    /\ ncycles = 0 /\ nmoves = 0 /\ nfaults = 0 /\ creep = NoCreep
    /\ JobsQuiet
    /\ DBQuiet

NextFn == ApplyAbsToPercentage \/ ApplyGetTextAtTime \/ ApplyFindTimeForText

\* one call of a normalizer or aligner function
SpecFn == InitFn /\ [][NextFn]_vars

InitDaemon ==
    /\ InitSched
    /\ FnQuiet
    /\ ApiQuiet
    /\ RestQuiet
    /\ absPos = 0 /\ koPos = 0 /\ stPos = None
    /\ transcript = MissingT
    /\ state = NoState /\ cyc = NoCycle /\ prevCyc = Summary(NoCycle)
    /\ ncycles = 0 /\ nmoves = 0 /\ nfaults = 0 /\ creep = NoCreep
    /\ JobsQuiet
    /\ DBQuiet

NextDaemon ==
    \/ \E j \in Jobs : SchedBegin(j)
    \/ \E j \in Jobs : SchedEnd(j)
    \/ BeginMapping
    \/ EndMapping
    \/ RunPending
    \/ EndPass
    \/ Sleep
    \/ Elapse

\* the daemon thread
SpecDaemon == InitDaemon /\ [][NextDaemon]_vars

InitClient ==
    /\ ApiQuiet
    /\ FnQuiet
    /\ SchedQuiet
    /\ RestQuiet
    /\ absPos = 0 /\ koPos = 0 /\ stPos = None
    /\ transcript = MissingT
    /\ state = NoState /\ cyc = NoCycle /\ prevCyc = Summary(NoCycle)
    /\ ncycles = 0 /\ nmoves = 0 /\ nfaults = 0 /\ creep = NoCreep
    /\ JobsQuiet
    /\ DBQuiet

NextClient ==
    \/ WithAPIInit
    \/ \E op \in ClientOps : ClientCall(op)
    \/ ApiTick

\* the Storyteller client and its calls
SpecClient == InitClient /\ [][NextClient]_vars

\* a book whose position row an earlier force_position_update followed by an
\* update_progress left ForceLeapMs + LeapMs ahead of the clock, or whose
\* row is as old as the clock
InitAhead ==
    /\ book = TRUE
    /\ \E ts \in {StartMs, StartMs + ForceLeapMs + LeapMs}, loc \in {AppLoc, BareLoc} :
         rows = [u \in RowIds |-> IF u = 1 THEN [present |-> TRUE, ts |-> ts, loc |-> loc]
                                  ELSE NoRow]
    /\ now = StartMs
    /\ upd = NoUpdate
    /\ nupd = 0
    /\ app = NoApp
    /\ JobsQuiet
    /\ absPos = 0 /\ koPos = 0 /\ stPos = None
    /\ transcript = MissingT
    /\ state = NoState /\ cyc = NoCycle /\ prevCyc = Summary(NoCycle)
    /\ ncycles = 0 /\ nmoves = 0 /\ nfaults = 0 /\ creep = NoCreep
    /\ AuxQuiet

\* the engine's writer over a row that earlier writes have stamped
SpecAhead == InitAhead /\ [][NextArb]_vars

NextLead == UpdateProgress \/ AppSync \/ Tick \/ ReadProgress \/ ReadFragment

\* sync cycles reading a book that the engine and the application write
SpecLead == InitAhead /\ [][NextLead]_vars

InitRun ==
    /\ InitAudio
    /\ LeadQuiet /\ DiscQuiet /\ FnQuiet /\ SchedQuiet /\ ApiQuiet
    /\ absPos = 0 /\ koPos = 0 /\ stPos = None
    /\ transcript = MissingT
    /\ state = NoState /\ cyc = NoCycle /\ prevCyc = Summary(NoCycle)
    /\ ncycles = 0 /\ nmoves = 0 /\ nfaults = 0 /\ creep = NoCreep
    /\ JobsQuiet
    /\ DBQuiet

NextRun ==
    \/ ProcessAudio
    \/ PrepareCache
    \/ Download
    \/ LoadModel
    \/ Transcribe
    \/ Save
    \/ Except
    \/ Finally

\* calls of process_audio for one audiobook
SpecRun == InitRun /\ [][NextRun]_vars

InitDisc ==
    /\ AuxQuiet
    /\ absPos = 0 /\ koPos = 0 /\ stPos = None
    /\ transcript = MissingT
    /\ state = NoState /\ cyc = NoCycle /\ prevCyc = Summary(NoCycle)
    /\ ncycles = 0 /\ nmoves = 0 /\ nfaults = 0 /\ creep = NoCreep
    /\ JobsQuiet
    /\ DBQuiet

NextDisc ==
    \/ RunDiscoveryCycle
    \/ \E k \in Keys : Dismiss(k)
    \/ DiscTick

\* discovery cycles over the suggestions of the manager
SpecDisc == InitDisc /\ [][NextDisc]_vars

\* ======================================================== sync-cycle claims
\* no source's reading moved beyond its threshold between two cycles
WithinThresholds(r1, r2) ==
    /\ Abs(r2.abs_ts - r1.abs_ts) <= delta_abs_thresh
    /\ Abs(r2.ko_pct - r1.ko_pct) <= delta_kosync_thresh
    /\ Abs(r2.st_pct - r1.st_pct) <= delta_kosync_thresh

WrittenTo(c, dest) == \E w \in c.writes : w.dest = dest

\* C3 (as claimed): if in two consecutive cycles every reading of the second
\* is within its threshold of the same source's reading in the first, the
\* second cycle issues no propagation write.
C3_DriftSuppression ==
    (Visited(prevCyc) /\ Visited(cyc) /\ WithinThresholds(prevCyc.rd, cyc.rd))
        => cyc.writes = {}

\* C3 (amended): if the first of two consecutive cycles found no drift, and
\* every reading of the second is within its threshold of the same source's
\* reading in the first, the second cycle finds no drift and issues no write.
C3_DriftSuppressionAfterNoop ==
    (prevCyc.kind = "noop" /\ Visited(cyc) /\ WithinThresholds(prevCyc.rd, cyc.rd))
        => (cyc.kind = "noop" /\ cyc.writes = {})

\* two no-op cycles in a row between which the listener moved by exactly
\* the threshold
C3_Witness ==
    /\ prevCyc.kind = "noop" /\ cyc.kind = "noop"
    /\ WithinThresholds(prevCyc.rd, cyc.rd)
    /\ Abs(cyc.rd.abs_ts - prevCyc.rd.abs_ts) = delta_abs_thresh

\* the normalized reading of a source in a cycle
PctOf(c, src) ==
    IF src = "KOSYNC" THEN c.rd.ko_pct
    ELSE IF src = "STORYTELLER" THEN c.rd.st_pct
    ELSE c.rd.abs_pct

Priority(src) == IF src = "KOSYNC" THEN 1 ELSE IF src = "STORYTELLER" THEN 2 ELSE 3

\* C4: in a cycle with drift the leader is a candidate of maximal normalized
\* position, and among equal maxima it is the first of KOSYNC, STORYTELLER, ABS.
C4_LeaderIsMaxWithFixedPriority ==
    cyc.kind = "prop" =>
        /\ cyc.leader \in cyc.cands
        /\ \A c \in cyc.cands :
            /\ PctOf(cyc, c) <= PctOf(cyc, cyc.leader)
            /\ PctOf(cyc, c) = PctOf(cyc, cyc.leader)
                  => Priority(cyc.leader) <= Priority(c)

\* a cycle led by KOSYNC with the audio source at the same, non-zero position
C4_Witness ==
    /\ cyc.kind = "prop" /\ cyc.leader = "KOSYNC"
    /\ cyc.rd.abs_pct = cyc.rd.ko_pct /\ cyc.rd.ko_pct > 0

\* C5: a source whose position could not be read in a cycle is not a leader
\* candidate of that cycle (its position is not taken to be 0).
C5_UnreadSourceExcluded ==
    cyc.kind = "prop" =>
        \A src \in {"ABS", "KOSYNC", "STORYTELLER"} :
            ~cyc.avail[src] => src \notin cyc.cands

\* the transcript gives no duration: no file, unreadable, empty, or zero
DurationUnknown(t) ==
    \/ t.kind = "missing"
    \/ t.kind = "list" /\ (Len(t.segs) = 0 \/ t.segs[Len(t.segs)].end = 0)
    \/ t.kind = "dict" /\ t.duration = 0

\* C6: with a transcript duration of zero or unknown the audio position is
\* indeterminate, the audio source is no candidate and is never the leader.
C6_NoDurationNoAudioLeader ==
    (Visited(cyc) /\ DurationUnknown(transcript)) =>
        /\ cyc.rd.abs_pct = None
        /\ "ABS" \notin cyc.cands
        /\ cyc.leader # "ABS"

\* a cycle with drift, no transcript and every source reading 0
C6_Witness ==
    /\ cyc.kind = "prop" /\ DurationUnknown(transcript)
    /\ cyc.rd.abs_ts = 0 /\ cyc.rd.ko_pct = 0 /\ cyc.rd.st_pct = 0

OtherText(src) == IF src = "KOSYNC" THEN "STORYTELLER" ELSE "KOSYNC"

\* C7: in a cycle led by a text source while the audio position is
\* indeterminate, a write to the other (readable) text source is attempted
\* and none to the audio source.
C7_TextLeaderWritesOtherText ==
    (/\ cyc.kind = "prop"
     /\ cyc.leader \in {"KOSYNC", "STORYTELLER"}
     /\ cyc.rd.abs_pct = None
     /\ cyc.avail[OtherText(cyc.leader)])
        => (WrittenTo(cyc, OtherText(cyc.leader)) /\ ~WrittenTo(cyc, "ABS"))

\* C8: in a cycle led by a text source, the write to the other text source
\* needs nothing derived from the transcript, so it is issued also when the
\* audio write could not be derived (time_for_text not found).
C8_DestinationsIndependent ==
    (/\ cyc.kind = "prop"
     /\ cyc.leader \in {"KOSYNC", "STORYTELLER"}
     /\ cyc.notfound)
        => WrittenTo(cyc, OtherText(cyc.leader))

\* C9: after a cycle whose update was aborted on time_for_text not_found,
\* the next cycle attempts propagation again, also with unchanged readings.
C9_RetryAfterNotFound ==
    (/\ prevCyc.kind = "prop" /\ prevCyc.notfound
     /\ Visited(cyc) /\ cyc.rd = prevCyc.rd)
        => cyc.kind = "prop"

\* ========================================================= lifecycle claims
\* C1: once start-up has completed and no job is in flight, no mapping is
\* left in 'processing' (a crashed job was recovered to 'active').
C1_NoProcessingAfterStartup ==
    proc = "idle" => \A m \in Mappings : status[m] # "processing"

LifecycleTransitions ==
    {<<"pending", "processing">>, <<"processing", "active">>,
     <<"processing", "failed_retry_later">>}

\* C2: while the manager runs (check_pending_jobs and sync_cycle), every
\* change of a mapping's status is pending -> processing, processing ->
\* active or processing -> failed_retry_later; 'active' is never left.
C2_OnlyLifecycleTransitions ==
    [][proc # "down" =>
        \A m \in Mappings :
            status'[m] # status[m] => <<status[m], status'[m]>> \in LifecycleTransitions]_vars

\* ============================================================ arbiter claims
\* C10: whenever update_progress writes, the row's new timestamp (as stored,
\* before any later writer touches the row) is max(wall clock, existing
\* timestamp) + 10000: more than the existing timestamp + 10000 - 1, and
\* more than the wall clock.
C10_LeapCorrect ==
    (upd.wrote /\ upd.op = "update" /\ ~app.after) =>
        /\ rows[upd.uuid].ts = Max(upd.now_ms, upd.current_ts) + LeapMs
        /\ rows[upd.uuid].ts > upd.current_ts + LeapMs - 1
        /\ rows[upd.uuid].ts > upd.now_ms

\* a write onto a row whose timestamp was already ahead of the wall clock
C10_Witness ==
    upd.wrote /\ upd.op = "update" /\ ~app.after /\ upd.current_ts > upd.now_ms

\* C11: after update_progress wrote at wall time t, for as long as less than
\* the leap has passed since t, whatever the Storyteller application wrote
\* meanwhile with timestamps of its clock, the read by latest timestamp
\* returns the percentage the engine wrote.
C11_LeapfrogWins ==
    (upd.wrote /\ upd.op = "update" /\ now < upd.now_ms + LeapMs)
        => LatestProgress = {upd.pct}

\* the application synced a position after the engine's write, at a later
\* wall time within the leap
C11_Witness ==
    /\ upd.wrote /\ upd.op = "update" /\ app.after
    /\ now > upd.now_ms /\ now < upd.now_ms + LeapMs

\* a step that is the second of two consecutive update_progress calls for
\* the book, both completing without a storage error on an existing position
\* row, with targets within epsilon and no other writer in between
SecondOfTwoUpdates ==
    /\ upd.called /\ upd.op = "update" /\ upd.io /\ ~upd.nobase
    /\ ~app.after
    /\ nupd' = nupd + 1 /\ upd'.op = "update" /\ upd'.io
    /\ Abs(upd'.pct - upd.pct) < EpsPct

\* C12 (as claimed): two such calls produce exactly one storage mutation:
\* the first call writes, the second leaves locator and timestamp as they
\* were and reports success.
C12_ExactlyOneMutation ==
    [][SecondOfTwoUpdates => (upd.wrote /\ ~upd'.wrote /\ rows' = rows /\ upd'.ret)]_vars

\* C12 (amended): when the first of two such calls wrote, the second leaves
\* locator and timestamp as they were and reports success.
C12_SecondCallSkipped ==
    [][(SecondOfTwoUpdates /\ upd.wrote) => (~upd'.wrote /\ rows' = rows /\ upd'.ret)]_vars

\* the second call asked for 50.11% and was skipped on a row holding the
\* 50.05% only an update_progress write can have put there
C12_Witness ==
    /\ nupd = 2 /\ upd.op = "update" /\ upd.ret /\ ~upd.wrote /\ ~app.after
    /\ upd.pct = 18040 /\ rows[upd.uuid].loc.tp = 18018

\* href.split('#')[0]
HrefFile(href) ==
    IF href \in {"ch1.xhtml#p12", "ch1.xhtml#p6"} THEN "ch1.xhtml" ELSE href

\* C13: a write of update_progress sets locations.totalProgression, removes
\* cssSelector, fragments, position, progression and the fragment identifier
\* of href, and leaves type, the file of href and the other keys under
\* locations as they were.
C13_WriteFootprint ==
    [][(nupd' = nupd + 1 /\ upd'.op = "update" /\ upd'.wrote) =>
        LET old == Parsed(rows[upd'.uuid].loc)
            new == rows'[upd'.uuid].loc
        IN  /\ new.json = "ok" /\ new.tp = upd'.pct
            /\ new.type = old.type
            /\ new.keys = old.keys \ {"cssSelector", "fragments", "position", "progression"}
            /\ HrefFile(new.href) = HrefFile(old.href)
            /\ FragmentId(new.href) = ""]_vars

\* C14: a call of update_progress or force_position_update for a book with
\* no matching book row or no position row returns False, creates no row
\* and changes no row.
C14_NoBaselineNoWrite ==
    [][(nupd' = nupd + 1 /\ (~book \/ \A u \in RowIds : ~rows[u].present))
          => (rows' = rows /\ ~upd'.ret /\ ~upd'.wrote)]_vars

\* force_position_update was called for a book that has no position row
C14_Witness ==
    /\ upd.called /\ upd.op = "force" /\ upd.io /\ upd.nobase /\ ~upd.ret
    /\ book /\ \A u \in RowIds : ~rows[u].present

\* ================================================= baseline and catalog claims
\* the stored baseline of every source is the reading rd
BaselineEquals(rd) ==
    /\ state.has
    /\ state.abs_ts = rd.abs_ts
    /\ state.abs_pct = (IF rd.abs_pct = None THEN 0 ELSE rd.abs_pct)
    /\ state.kosync_pct = rd.ko_pct
    /\ state.storyteller_pct = rd.st_pct

\* C15: after every cycle that reached the drift check, whether it was a
\* no-op, a successful or a failed propagation, the mapping's sync state is
\* the one that cycle wrote: its readings on a no-op; after a propagation the
\* final percentage for both text sources, and on a failure the audio
\* reading.
C15_StateWrittenEveryCycle ==
    Visited(cyc) =>
        /\ state.has
        /\ cyc.kind = "noop" => BaselineEquals(cyc.rd)
        /\ cyc.kind = "prop" =>
              /\ state.kosync_pct = cyc.final_pct
              /\ state.storyteller_pct = cyc.final_pct
              /\ ~cyc.success => state.abs_ts = cyc.rd.abs_ts

\* a failed propagation right after a no-op cycle, leaving a baseline other
\* than the one the no-op cycle had stored
C15_Witness ==
    /\ prevCyc.kind = "noop" /\ cyc.kind = "prop" /\ ~cyc.success
    /\ state.has /\ state.kosync_pct # prevCyc.rd.ko_pct

\* C16 (as claimed): if every cycle but the first found each source within
\* its threshold of the previous cycle's reading, no cycle after the first
\* issues a propagation write and the stored baseline is the last cycle's
\* readings.
C16_CreepNeverPropagates ==
    (ncycles >= 2 /\ creep.later) =>
        (cyc.writes = {} /\ BaselineEquals(cyc.rd))

\* C16 (amended): starting without a stored baseline, if every cycle found
\* each source within its threshold of the previous cycle's reading (the
\* first cycle: of 0), every cycle was a no-op without a write and the stored
\* baseline is the last cycle's readings.
C16_CreepFromEmptyBaseline ==
    (ncycles >= 1 /\ creep.all) =>
        (cyc.kind = "noop" /\ cyc.writes = {} /\ BaselineEquals(cyc.rd))

\* two sub-threshold cycles whose movement adds up to more than the threshold
C16_Witness ==
    /\ ncycles = 2 /\ creep.all
    /\ cyc.rd.ko_pct > delta_kosync_thresh
    /\ cyc.rd.ko_pct # prevCyc.rd.ko_pct

\* C18: the catalog is called in a cycle (auto-match or progress update)
\* only if the cycle's propagation succeeded and the final percentage is
\* strictly greater than 0.01.
C18_MaterialityGate ==
    cyc.hc # {} =>
        (cyc.kind = "prop" /\ cyc.success /\ cyc.final_pct * 100 > One)

\* a cycle that matched the book in the catalog and then updated its progress
C18_Witness == cyc.hc = {"automatch", "sync"} /\ hcid[1]

C19_FailedNeverRetried ==
    [][proc # "down" =>
        \A m \in Mappings :
            status[m] = "failed_retry_later" =>
                (status'[m] = "failed_retry_later" /\ job' # m /\ m \notin synced')]_vars

\* a job pass set up another mapping and a sync pass reconciled it, while a
\* mapping whose transcription had failed stayed as it was
C19_Witness ==
    \E m, k \in Mappings :
        /\ status[m] = "failed_retry_later" /\ m \notin synced /\ m < k
        /\ lastjob.m = k /\ k \in synced

\* C20: a setup step that fails leaves the mapping in 'failed_retry_later'
\* and records no transcript reference; a step of the job pipeline that
\* sets a mapping 'active' sets its transcript reference in the same update.
C20_SetupFailureBlocksActivation ==
    [][proc # "down" =>
        \A m \in Mappings :
            /\ (status'[m] = "active" /\ status[m] # "active") => tref'[m]
            /\ (proc = "setup" /\ job = m /\ proc' = "idle") =>
                  (status'[m] = "failed_retry_later" /\ ~tref'[m])]_vars

\* a mapping whose transcription failed
C20_Witness ==
    /\ lastjob.outcome = "transcription_fails" /\ proc = "idle"
    /\ status[lastjob.m] = "failed_retry_later" /\ ~tref[lastjob.m]

\* ===================================================== aligner claims
\* C21: for every audio position, negative and beyond the duration included,
\* and every positive transcript duration, _abs_to_percentage returns
\* position/duration clamped to [0,1]; when the duration is 0 or not
\* available it returns None, never 0.
C21_NormalizerRange ==
    (fout.called /\ fin.fn = "abs_to_percentage") =>
        LET d == GetTranscriptDuration(fin.T)
            pos == fin.abs_seconds
        IN  IF d > 0
            THEN /\ fout.ret \in 0..One
                 /\ pos <= 0 => fout.ret = 0
                 /\ pos >= d => fout.ret = One
                 /\ (0 < pos /\ pos < d) =>
                        /\ fout.ret * d <= pos * One
                        /\ pos * One < (fout.ret + 1) * d
            ELSE fout.ret = None /\ fout.ret # 0

\* C21: a position beyond the end of a transcript of known duration has been
\* normalised to 1.0
C21_Witness ==
    /\ fout.called /\ fin.fn = "abs_to_percentage"
    /\ GetTranscriptDuration(fin.T) > 0
    /\ fin.abs_seconds > GetTranscriptDuration(fin.T)
    /\ fout.ret = One

\* the characters of the texts of the segments idx of data, added up
RECURSIVE SumLens(_, _)
SumLens(data, idx) ==
    IF Len(idx) = 0 THEN 0 ELSE data[Head(idx)].len + SumLens(data, Tail(idx))

\* len(" ".join(texts)) for the texts of the segments idx
TextLength(data, idx) ==
    IF Len(idx) = 0 THEN 0 ELSE SumLens(data, idx) + Len(idx) - 1

TotalLength(data) == SumLens(data, [i \in 1..Len(data) |-> i])

\* a get_text_at_time call on a list of at least one segment with a
\* timestamp in [0, duration]
WindowCall ==
    /\ fout.called /\ fin.fn = "get_text_at_time"
    /\ fin.T.kind = "list" /\ Len(fin.T.segs) > 0
    /\ 0 <= fin.timestamp /\ fin.timestamp <= GetTranscriptDuration(fin.T)

LongEnough ==
    /\ fout.found
    /\ TextLength(fin.T.segs, fout.idx) > 0
    /\ TotalLength(fin.T.segs) >= 400 => TextLength(fin.T.segs, fout.idx) >= 400

\* C22: for every transcript of at least one segment and every timestamp in
\* [0, duration], get_text_at_time returns a non-empty text, of at least 400
\* characters whenever the texts of the transcript add up to 400 or more.
C22_MinimumLength == WindowCall => LongEnough

\* C22 (amended): the same for every transcript in which some segment has a
\* non-empty text.
C22_MinimumLengthWithText ==
    (WindowCall /\ TotalLength(fin.T.segs) > 0) => LongEnough

\* C22: an anchor shorter than the target was widened to the target
C22_Witness ==
    /\ WindowCall /\ fout.found
    /\ Len(fout.idx) > 1
    /\ TotalLength(fin.T.segs) >= 400
    /\ TextLength(fin.T.segs, fout.idx) >= 400

\* segments whose interval contains t
Containing(data, t) ==
    {i \in 1..Len(data) : data[i].start <= t /\ t <= data[i].end}

\* segments whose nearer boundary is closest to t
Nearest(data, t) ==
    {i \in 1..Len(data) :
        \A j \in 1..Len(data) :
            Min(Abs(t - data[i].start), Abs(t - data[i].end))
              <= Min(Abs(t - data[j].start), Abs(t - data[j].end))}

Anchors(data, t) ==
    IF Containing(data, t) # {} THEN Containing(data, t) ELSE Nearest(data, t)

\* C23: the text get_text_at_time returns is made of a contiguous run of
\* segments in transcript order that contains the anchor (a segment
\* containing t, or when there is none a segment whose nearer boundary is
\* closest to t); the run reaches the target length or both ends of the
\* transcript, and without the segment taken last it is below the target.
C23_WindowShape ==
    (fout.called /\ fin.fn = "get_text_at_time" /\ fout.found) =>
        LET data == fin.T.segs
            idx == fout.idx
            lo == idx[1]
            hi == idx[Len(idx)]
        IN  /\ Len(idx) >= 1
            /\ \A k \in 1..(Len(idx) - 1) : idx[k + 1] = idx[k] + 1
            /\ \/ SumLens(data, idx) >= TARGET_LEN
               \/ lo = 1 /\ hi = Len(data)
            /\ \E a \in Anchors(data, fin.timestamp) :
                  /\ lo <= a /\ a <= hi
                  /\ \/ Len(idx) = 1
                     \/ \E e \in {lo, hi} \ {a} :
                            SumLens(data, idx) - data[e].len < TARGET_LEN

\* C23: no segment contains t, and the run around the closest segment
\* reached the target before it reached both ends of the transcript
C23_Witness ==
    /\ fout.called /\ fin.fn = "get_text_at_time" /\ fout.found
    /\ Containing(fin.T.segs, fin.timestamp) = {}
    /\ Len(fout.idx) > 1
    /\ Len(fout.idx) < Len(fin.T.segs)

\* a find_time_for_text call on a list of segments
MatchCall == fout.called /\ fin.fn = "find_time_for_text" /\ fin.T.kind = "list"

\* the score of segment i of the transcript against the text searched for
SegScore(i) == Score(fin.search_text, fin.T.segs[i].text)

FullScore == 100 * ScoreUnit

\* C24: for every transcript T and segment i, find_time_for_text(T,
\* T[i].text) returns a timestamp within [T[i].start, T[i].end], whatever the
\* texts of the other segments are.
C24_SelfMatch ==
    MatchCall =>
        \A i \in 1..Len(fin.T.segs) :
            fin.T.segs[i].text = fin.search_text =>
                /\ fin.T.segs[i].start <= fout.ret
                /\ fout.ret <= fin.T.segs[i].end

\* C24 (amended): find_time_for_text(T, T[i].text) returns the start of the
\* earliest segment whose text scores 100 against T[i].text (it equals it,
\* contains it or is contained in it); it lies within [T[i].start, T[i].end]
\* when no segment before i has such a text.
C24_SelfMatchEarliest ==
    MatchCall =>
        \A i \in 1..Len(fin.T.segs) :
            fin.T.segs[i].text = fin.search_text =>
                /\ \E j \in 1..i :
                      /\ SegScore(j) = FullScore
                      /\ \A k \in 1..(j - 1) : SegScore(k) < FullScore
                      /\ fout.ret = fin.T.segs[j].start
                /\ (\A k \in 1..(i - 1) : SegScore(k) < FullScore) =>
                      /\ fin.T.segs[i].start <= fout.ret
                      /\ fout.ret <= fin.T.segs[i].end

\* C24: the text of a later segment was searched for, a segment after it
\* has a text containing it, and the call returned the start of the segment
\* itself
C24_Witness ==
    /\ MatchCall
    /\ \E i \in 2..Len(fin.T.segs) :
          /\ fin.T.segs[i].text = fin.search_text
          /\ \A k \in 1..(i - 1) : SegScore(k) < FullScore
          /\ \E k \in (i + 1)..Len(fin.T.segs) :
                SegScore(k) = FullScore /\ fin.T.segs[k].text # fin.search_text
          /\ fout.ret = fin.T.segs[i].start

\* the highest score of a segment of the transcript (0 when it has none)
BestScore == MaxOf({0} \cup {SegScore(i) : i \in 1..Len(fin.T.segs)})

\* the segments with the highest score
BestSegs == {i \in 1..Len(fin.T.segs) : SegScore(i) = BestScore}

\* C25: find_time_for_text returns the start of the highest-scoring segment,
\* the earliest one when several share that score, if and only if the score
\* is strictly greater than 80; otherwise it returns None.
C25_Acceptance ==
    MatchCall =>
        IF Len(fin.T.segs) > 0 /\ BestScore > 80 * ScoreUnit
        THEN \E i \in BestSegs :
                /\ \A j \in BestSegs : i <= j
                /\ fout.ret = fin.T.segs[i].start
        ELSE fout.ret = None

\* C25: two segments share a top score between 80 and 100, a lower-scoring
\* segment comes before them, and the start of the first of the two was
\* returned
C25_Witness ==
    /\ MatchCall
    /\ Len(fin.T.segs) > 0
    /\ BestScore > 80 * ScoreUnit /\ BestScore < FullScore
    /\ Cardinality(BestSegs) = 2
    /\ 1 \notin BestSegs
    /\ fout.ret = fin.T.segs[2].start

AudioLedScenario ==
    /\ ncycles = 1 /\ Visited(cyc)
    /\ GetTranscriptDuration(transcript) = 3600
    /\ cyc.rd.abs_ts = 1800 /\ cyc.rd.ko_pct = 0 /\ cyc.rd.st_pct = 0

\* the cycle wrote one percentage to both text sources and it is the
\* baseline of both
BothTextWritten ==
    \E v \in 1..One :
        /\ cyc.writes = {W("KOSYNC", v), W("STORYTELLER", v)}
        /\ state.kosync_pct = v /\ state.storyteller_pct = v

\* C27: in the audio-led scenario the cycle detects a change, takes the audio
\* source as leader, writes the percentage of the text index to KoSync and
\* Storyteller, nothing to the audio source, and records that percentage as
\* the baseline of both text sources.
C27_AudioLedCycle ==
    AudioLedScenario =>
        /\ cyc.kind = "prop" /\ cyc.leader = "ABS"
        /\ ~WrittenTo(cyc, "ABS")
        /\ BothTextWritten

\* C27 (amended): the same when the transcript gives a text at the audio
\* time and the text index a match for it; when either fails the cycle
\* writes nothing and records the audio percentage 0.5 as the baseline of
\* both text sources.
C27_AudioLedCycleIfAligned ==
    AudioLedScenario =>
        /\ cyc.kind = "prop" /\ cyc.leader = "ABS"
        /\ ~WrittenTo(cyc, "ABS")
        /\ state.has /\ state.abs_ts = 1800 /\ state.abs_pct = One \div 2
        /\ IF cyc.success
           THEN BothTextWritten
           ELSE /\ cyc.writes = {}
                /\ state.kosync_pct = One \div 2
                /\ state.storyteller_pct = One \div 2

\* C27: the audio-led scenario with a successful alignment
C27_Witness ==
    /\ AudioLedScenario
    /\ cyc.success
    /\ cyc.leader = "ABS"
    /\ BothTextWritten

\* ====================================================== scheduling claims
\* job executions in progress
Executions ==
    running["sync_cycle"] + running["check_pending_jobs"] + running["run_discovery"]

\* C28: in run_daemon at most one execution of sync_cycle, check_pending_jobs
\* and run_discovery is in progress at any time, and sync_cycle works on at
\* most one mapping at a time, also when a run lasts longer than its
\* interval.
C28_MutualExclusion ==
    /\ Executions <= 1
    /\ Cardinality(inproc) <= 1
    /\ inproc # {} => running["sync_cycle"] = 1

\* C28: sync_cycle has been running for longer than its interval, is inside
\* a mapping, and check_pending_jobs is more than an interval overdue
C28_Witness ==
    /\ running["sync_cycle"] = 1
    /\ inproc # {}
    /\ clock - since["sync_cycle"] > Interval("sync_cycle")
    /\ nextrun["check_pending_jobs"] + Interval("check_pending_jobs") <= clock

\* ================================================ Storyteller client claims
\* the backend that is set
CurrentChoice ==
    IF api_client THEN "api" ELSE IF db_fallback THEN "sqlite" ELSE "none"

\* C29: after the constructor at most one of api_client and db_fallback is
\* set, the backend is the one the constructor chose, and a call uses that
\* backend and no other, also when it gives no answer.
C29_BackendChosenOnce ==
    built =>
        /\ ~(api_client /\ db_fallback)
        /\ CurrentChoice = chosen
        /\ ncalls > 0 =>
              stcall.touched = (IF chosen = "none" THEN {} ELSE {chosen})

\* C29: the API was chosen, a call got no answer from it and used no other
\* backend
C29_Witness ==
    /\ built /\ chosen = "api"
    /\ ncalls > 0
    /\ stcall.reqs # <<>>
    /\ ~stcall.answered
    /\ stcall.touched = {"api"}

\* requests of r sent with the cached token
CachedUses(r) == Cardinality({s \in 1..Len(r.sent) : r.sent[s].cached})

\* C30: a request is sent with the cached token only if the token is less
\* than 30 s old; when there is no token or it is 30 s old or older a token
\* is fetched first and the request carries it; after a failed fetch
\* nothing is sent and the call returns no response.
C30_TokenFreshness ==
    \A k \in 1..Len(stcall.reqs) :
        LET r == stcall.reqs[k]
        IN  /\ \A s \in 1..Len(r.sent) : r.sent[s].cached => r.sent[s].age < 30
            /\ (~r.hadtok \/ r.age0 >= 30) =>
                  /\ r.fetches >= 1
                  /\ Len(r.sent) > 0 => (~r.sent[1].cached /\ r.sent[1].age = 0)
            /\ Len(r.sent) = CachedUses(r) + r.fetches - (IF r.failed THEN 1 ELSE 0)
            /\ r.failed => r.resp = "none"

\* C30: a request found a token of 30 s or more, fetched a new one and was
\* sent with it
C30_Witness ==
    \E k \in 1..Len(stcall.reqs) :
        LET r == stcall.reqs[k]
        IN  /\ r.hadtok /\ r.age0 >= 30
            /\ r.fetches = 1
            /\ Len(r.sent) = 1 /\ ~r.sent[1].cached
            /\ r.resp = "ok"

\* ================================================= claims on the whole cycle
\* C31: when a text source leads and find_time_for_text answers 0.0 (an
\* accepted match on a segment that starts at 0 s), the audio source is
\* written with 0 and, unless the locator lookup that follows raises, the
\* cycle succeeds; when the audio source leads and the text index answers
\* the percentage 0.0, that percentage is written to both text sources.
C31_ZeroMatchPropagated ==
    /\ (cyc.kind = "prop" /\ cyc.leader \in {"KOSYNC", "STORYTELLER"} /\ cyc.look = 0)
          => W("ABS", 0) \in cyc.writes
    /\ (cyc.kind = "prop" /\ cyc.leader = "KOSYNC" /\ cyc.look = 0)
          => cyc.success
    /\ (cyc.kind = "prop" /\ cyc.leader = "ABS" /\ cyc.look = 0)
          => {W("KOSYNC", 0), W("STORYTELLER", 0)} \subseteq cyc.writes

\* C32: a write of update_progress or force_position_update that changes
\* the row stores a timestamp strictly greater than the one the row held
\* before the write.
C32_MonotoneTimestamp ==
    (upd.wrote /\ ~app.after) => rows[upd.uuid].ts > upd.current_ts

\* C33: in a cycle led by Storyteller the text that is looked up in the
\* transcript is the text at the position st_pct that made Storyteller the
\* leader.
C33_OneConsistentReading ==
    (lead.pc = "done" /\ lead.text # "none") => lead.at = lead.st_pct

\* the value the store of a source holds
StoreOf(src) ==
    IF src = "ABS" THEN absPos ELSE IF src = "KOSYNC" THEN koPos ELSE stPos

\* the value the last cycle read from its leader
LeaderReading(c) ==
    IF c.leader = "ABS" THEN c.rd.abs_ts
    ELSE IF c.leader = "KOSYNC" THEN c.rd.ko_pct
    ELSE c.rd.st_pct

\* the last cycle propagated with success, each destination holds what the
\* cycle wrote to it, and the leader holds what the cycle read from it
Settled ==
    /\ cyc.kind = "prop" /\ cyc.success
    /\ \A w \in cyc.writes : StoreOf(w.dest) = w.val
    /\ StoreOf(cyc.leader) = LeaderReading(cyc)

C35_LeaderNotWritten ==
    cyc.kind = "prop" =>
        /\ cyc.leader \in {"ABS", "KOSYNC", "STORYTELLER"}
        /\ \A w \in cyc.writes : w.dest # cyc.leader

\* C35 witness: a KoSync-led cycle that wrote to the two other sources
C35_Witness ==
    /\ cyc.kind = "prop" /\ cyc.leader = "KOSYNC" /\ cyc.success
    /\ {w.dest : w \in cyc.writes} = {"ABS", "STORYTELLER"}

\* C36: a sync pass enters the loop body of no mapping whose status is not
\* 'active': nothing is read, written or saved for it.
C36_OnlyActiveReconciled ==
    [][(proc = "idle" /\ proc' = "idle") =>
        \A m \in Mappings :
            status[m] # "active" => (m \notin synced' /\ passres'[m] = "none")]_vars

\* C36 witness: a pass reconciled one mapping and passed over another, which
\* is not active
C36_Witness ==
    /\ proc = "idle"
    /\ \E m, k \in Mappings :
        /\ status[m] \in {"pending", "failed_retry_later"}
        /\ m \notin synced /\ passres[m] = "none"
        /\ status[k] = "active" /\ k \in synced /\ passres[k] = "ok"

\* C37 (as claimed): whenever update_progress has written, the timestamp it
\* stored is at most the wall clock of the write plus the leap.
C37_BoundedInflation ==
    (upd.wrote /\ upd.op = "update" /\ ~app.after)
        => rows[upd.uuid].ts <= upd.now_ms + LeapMs

\* C37 (amended): a write of update_progress stores at most the wall clock
\* plus the leap when the row was not ahead of the wall clock, and exactly
\* one leap more than the row held when it was; a call that is skipped for
\* an unchanged percentage leaves the timestamp as it was.
C37_OneLeapPerWrite ==
    /\ (upd.wrote /\ upd.op = "update" /\ ~app.after) =>
          IF upd.current_ts <= upd.now_ms
          THEN rows[upd.uuid].ts <= upd.now_ms + LeapMs
          ELSE rows[upd.uuid].ts = upd.current_ts + LeapMs
    /\ (upd.ret /\ ~upd.wrote /\ upd.op = "update" /\ ~app.after) =>
          rows[upd.uuid].ts = upd.current_ts

\* C37 witness: the second of two writes of update_progress within the leap
\* of the first: the row is two leaps ahead of the wall clock
C37_Witness ==
    /\ nupd = 2 /\ upd.wrote /\ upd.op = "update" /\ ~app.after
    /\ upd.current_ts = upd.now_ms + LeapMs
    /\ rows[upd.uuid].ts = upd.now_ms + 2 * LeapMs

\* C38: one _make_request sends at most two requests; a 401 on the first is
\* followed by one forced token fetch and, if that gives a token, by one
\* more request with the new token, whose response is returned even when it
\* is a 401 again; if the forced fetch fails nothing more is sent and None
\* is returned; no second request is sent in any other case.
C38_BoundedRetry ==
    \A i \in 1..Len(stcall.reqs) :
        LET r == stcall.reqs[i]
            n == Len(r.sent)
        IN  /\ n <= 2 /\ Len(r.got) = n
            /\ n = 2 => r.got[1] = "unauthorized"
            /\ (n >= 1 /\ r.got[1] = "unauthorized") =>
                  /\ r.fetches = (IF r.sent[1].cached THEN 1 ELSE 2)
                  /\ IF r.failed THEN n = 1 /\ r.resp = "none"
                     ELSE n = 2 /\ ~r.sent[2].cached /\ r.sent[2].age = 0
            /\ (n >= 1 /\ r.got[1] # "unauthorized") =>
                  r.fetches = (IF r.sent[1].cached THEN 0 ELSE 1)
            /\ (n = 2 /\ r.got[2] = "unauthorized") => r.resp = "unauthorized"

\* C38 witness: a call in which one request met a 401 twice, and one in
\* which the forced token fetch failed
C38_Witness ==
    /\ \E i \in 1..Len(stcall.reqs) :
          stcall.reqs[i].got = <<"unauthorized", "unauthorized">>
    /\ \E i \in 1..Len(stcall.reqs) :
          stcall.reqs[i].got = <<"unauthorized">> /\ stcall.reqs[i].failed

\* C39: a call of process_audio that finds a transcript returns it without
\* preparing the cache directory, downloading or transcribing, and the file
\* stays as found; after a call that raised there is no transcript file;
\* after a call that created the cache directory the directory is gone.
C39_TranscriptAndCleanup ==
    /\ pa.found # "absent" =>
          /\ pa.pc = "idle" /\ pa.ret = "file" /\ outfile = pa.found
          /\ ~pa.made /\ pa.got = 0 /\ pa.done = 0
    /\ (pa.pc = "idle" /\ pa.ret = "raised") => outfile = "absent"
    /\ (pa.pc = "idle" /\ pa.made) => ~cachedir

\* C39 witness: a call that cached and transcribed every part and failed
\* when saving
C39_Witness ==
    /\ pa.pc = "idle" /\ pa.ret = "raised" /\ pa.made
    /\ pa.got = pa.parts /\ pa.done = pa.parts /\ pa.parts = MaxParts
    /\ outfile = "absent" /\ ~cachedir

\* the audiobook of a suggestion: its source when the key is an ABS key, its
\* match when the key is a Storyteller key
AudiobookOf(k, sg) == IF k[1] = "ABS" THEN sg.source_id ELSE sg.match_id

\* C40: in a discovery cycle a key that holds a suggestion keeps it as it is
\* (pending or dismissed) unless the clean-up removes it; a suggestion the
\* cycle creates is pending, of High or Medium confidence, and for an
\* audiobook outside the mapped set the cycle was given.
C40_SuggestionDedup ==
    [][disc'.n = disc.n + 1 =>
        \A k \in Keys :
            IF suggestions[k].state # "none"
            THEN suggestions'[k] \in {suggestions[k], NoSuggestion}
            ELSE suggestions'[k].state # "none" =>
                    /\ suggestions'[k].state = "pending"
                    /\ suggestions'[k].confidence \in {"High", "Medium"}
                    /\ suggestions'[k].timestamp = dclock
                    /\ AudiobookOf(k, suggestions'[k]) \in AbsIds \ disc'.mapped]_vars

\* C40 witness: a second cycle came upon two audiobooks in progress, one
\* whose suggestion had been dismissed and one that is mapped, and created
\* a suggestion for the Storyteller book
C40_Witness ==
    /\ disc.n = 2 /\ ~disc.raised
    /\ disc.items = {"a1", "a2", "s1"}
    /\ \E a \in AbsIds :
          /\ suggestions[GenerateKey("ABS", a)].state = "dismissed"
          /\ disc.mapped = AbsIds \ {a}
          /\ \A b \in AbsIds \ {a} : suggestions[GenerateKey("ABS", b)].state = "none"
          /\ suggestions[GenerateKey("STORYTELLER", "s1")].state = "pending"
          /\ suggestions[GenerateKey("STORYTELLER", "s1")].match_id = a
          /\ suggestions[GenerateKey("STORYTELLER", "s1")].timestamp = dclock
====
